---- MODULE Spec2Model ----
(***************************************************************************)
(* Account I/O layer of the hayabusa SDK: the input-buffer parser           *)
(* (crates/entrypoint), the account views with their runtime borrow state   *)
(* (re-exported by crates/common) and the discriminator-tagged zero-copy    *)
(* typed-cast layer (crates/ser/src/zc.rs).                                 *)
(***************************************************************************)
EXTENDS Integers, Sequences, FiniteSets, Bags, TLC

VARIABLES
    pc,          \* "entry" before the entrypoint has parsed the buffer, "run" after
    buffer,      \* the serialized input as the host wrote it (layout is fixed by it)
    mem,         \* RuntimeAccount header + data of each record, as currently in memory
    borrow,      \* the Borrow State cell stored in each RuntimeAccount
    max_accounts,\* the MAX_ACCOUNTS the entrypoint was instantiated with
    accounts,    \* the array of AccountView slots filled by deserialize
    count,       \* number of account views reported by deserialize
    entry,       \* program id and instruction data returned by deserialize
    guards,      \* bag of live borrow guards (Ref / RefMut, raw or typed)
    inited,      \* history: physical accounts on which try_initialize returned Ok
    written,     \* history: the payload last stored through a typed handle
    heap,        \* the bump allocator, its offset word and the blocks it handed out
    conv,        \* the last ErrorCode conversion made and its result
    ctx,         \* the InstructionContext of the lazy entrypoint: buffer, remaining
    lazy,        \* history: what the calls on the InstructionContext returned
    rent,        \* the Rent sysvar value and the last balance computed from it
    last         \* outcome of the most recent operation

vars == <<pc, buffer, mem, borrow, max_accounts, accounts, count, entry, guards, inited,
          written, heap, conv, ctx, lazy, rent, last>>

----------------------------------------------------------------------------
(* Bounds of the model *)

\* largest number of account records in a generated input buffer
MaxRecords == 3
\* largest number of simultaneously live borrow guards
MaxGuards == 2
\* longest record list of the parser specification (6 enters the batch loop)
MaxParseRecords == 6
\* most successful allocations in one run of the allocator specification
MaxAllocs == 3
\* largest u32 handed to ErrorCode::try_from
MaxCode == 127
\* longest record list of the batch specification (12 takes the batch loop twice)
MaxBatchRecords == 12

----------------------------------------------------------------------------
(* Program constants *)

NON_DUP_MARKER == 255
MAX_TX_ACCOUNTS == 254
MAX_HEAP_LENGTH == 262144
SIZE_OF_USIZE == 8
BPF_ALIGN_OF_U128 == 8
SIZE_OF_U64 == 8
\* size_of::<RuntimeAccount>() : 1+1+1+1+4+32+32+8+8
SIZE_OF_RUNTIME_ACCOUNT == 88
MAX_PERMITTED_DATA_INCREASE == 10240
STATIC_ACCOUNT_DATA == SIZE_OF_RUNTIME_ACCOUNT + MAX_PERMITTED_DATA_INCREASE
\* length of the discriminator prefix of every typed record
DISC_LEN == 8

\* addresses (32-byte keys, kept symbolic)
SYSTEM_ID == "11111111111111111111111111111111"
PROGRAM_ID == "HPoDm7Kf63B6TpFKV7S8YSd7sGde6sVdztiDBEVkfuxz"
OTHER_ID == "OtherProgram"
LOADER_ID == "NativeLoader"

----------------------------------------------------------------------------
(* Declared account types: #[account] structs of the counter example *)

Types == {"CounterAccount", "Test"}

\* core::mem::size_of::<T>() : both structs hold one u64
SizeOf(T) == 8

\* Len::DISCRIMINATED_LEN
DISCRIMINATED_LEN(T) == DISC_LEN + SizeOf(T)

\* Discriminator::DISCRIMINATOR : first 8 bytes of sha256(type name)
DISCRIMINATOR(T) ==
    IF T = "CounterAccount"
    THEN <<187, 192, 81, 6, 110, 149, 93, 2>>
    ELSE <<83, 46, 170, 189, 149, 116, 136, 13>>

\* OwnerProgram::OWNER : crate::ID for every derived type
OWNER(T) == PROGRAM_ID

----------------------------------------------------------------------------
(* Byte-slice helpers *)

Min(a, b) == IF a < b THEN a ELSE b

\* &d[a..b] of a slice that is long enough
Slice(d, a, b) == [i \in 1..(b - a) |-> d[a + i]]

Zeros(n) == [i \in 1..n |-> 0]

Fill(n, b) == [i \in 1..n |-> b]

----------------------------------------------------------------------------
(* Input buffer layout, as the host serializer writes it (spec 4.1)        *)
(* buffer = [recs |-> 0-based function of records, ix |-> instruction      *)
(* bytes, program_id |-> address]; a record is [marker, data_len].         *)

NumRecs(buf) == Cardinality(DOMAIN buf.recs)

\* align_pointer!
AlignPointer(p) ==
    ((p + (BPF_ALIGN_OF_U128 - 1)) \div BPF_ALIGN_OF_U128) * BPF_ALIGN_OF_U128

\* bytes one record occupies in the serialized buffer
RecordSize(rec) ==
    IF rec.marker # NON_DUP_MARKER
    THEN SIZE_OF_U64
    ELSE AlignPointer(SIZE_OF_RUNTIME_ACCOUNT + rec.data_len
                      + MAX_PERMITTED_DATA_INCREASE) + SIZE_OF_U64

RECURSIVE RecordOffset(_, _)
\* byte offset of record k (k = NumRecs gives the offset of instruction_len)
RecordOffset(buf, k) ==
    IF k = 0 THEN SIZE_OF_U64
    ELSE RecordOffset(buf, k - 1) + RecordSize(buf.recs[k - 1])

\* the record that starts at byte offset off, -1 when none does
RecordAt(buf, off) ==
    LET hits == {k \in DOMAIN buf.recs : RecordOffset(buf, k) = off}
    IN IF hits = {} THEN -1 ELSE CHOOSE k \in hits : TRUE

\* the physical account a record stands for: itself, or the record it duplicates
Phys(buf, k) ==
    IF buf.recs[k].marker = NON_DUP_MARKER THEN k ELSE buf.recs[k].marker

----------------------------------------------------------------------------
(* Input Buffer Parser: crates/entrypoint, deserialize                     *)
(* A parser state is [input |-> byte cursor, acc |-> index the `accounts`  *)
(* pointer stands at, slots |-> the slots written so far].                 *)

\* *(input as *const u64) at the start of the buffer: the account count
ReadAccountCount(buf) == NumRecs(buf)

\* (*account).borrow_state and (*account).data_len of the RuntimeAccount at
\* byte offset `account`; an offset where no record starts reads as a
\* non-duplicate header of length 0
ReadHeader(buf, m, account) ==
    LET k == RecordAt(buf, account)
    IN IF k = -1
       THEN [borrow_state |-> NON_DUP_MARKER, data_len |-> 0]
       ELSE [borrow_state |-> buf.recs[k].marker, data_len |-> Len(m[k].data)]

\* AccountView::new_unchecked(account): a view is the raw pointer it wraps
new_unchecked(account) == [raw |-> account]

\* accounts.write(view) at slot index i
WriteSlot(slots, i, view) ==
    [j \in (DOMAIN slots) \cup {i} |-> IF j = i THEN view ELSE slots[j]]

\* variant of clone_account_view that ignores the marker's index and copies
\* the first view of the slice
clone_account_view_First(slots, index) ==
    IF 0 \in DOMAIN slots THEN slots[0] ELSE [raw |-> -1]

\* clone_account_view: a struct copy of the view at accounts_slice[index]
clone_account_view(slots, index) ==
    IF index \in DOMAIN slots THEN slots[index] ELSE [raw |-> -1]

\* variant of @process_account whose duplicate branch wraps the marker record
\* in a view of its own instead of copying the primary view
ProcessAccount_NoClone(buf, m, ps) ==
    LET acc == ps.acc + 1
        account == ps.input
        hdr == ReadHeader(buf, m, account)
        input1 == ps.input + SIZE_OF_U64
    IN [input |-> IF hdr.borrow_state # NON_DUP_MARKER
                  THEN input1
                  ELSE AlignPointer(input1 + STATIC_ACCOUNT_DATA + hdr.data_len),
        acc |-> acc,
        slots |-> WriteSlot(ps.slots, acc, new_unchecked(account))]

\* variant of @process_account whose duplicate branch advances the accounts
\* pointer without writing a view
ProcessAccount_DropDuplicate(buf, m, ps) ==
    LET acc == ps.acc + 1
        account == ps.input
        hdr == ReadHeader(buf, m, account)
        input1 == ps.input + SIZE_OF_U64
    IN IF hdr.borrow_state # NON_DUP_MARKER
       THEN [input |-> input1, acc |-> acc, slots |-> ps.slots]
       ELSE [input |-> AlignPointer(input1 + STATIC_ACCOUNT_DATA + hdr.data_len),
             acc |-> acc,
             slots |-> WriteSlot(ps.slots, acc, new_unchecked(account))]

\* process_n_accounts!(@process_account ...)
ProcessAccount(buf, m, ps) ==
    LET acc == ps.acc + 1
        account == ps.input
        hdr == ReadHeader(buf, m, account)
        input1 == ps.input + SIZE_OF_U64
    IN IF hdr.borrow_state # NON_DUP_MARKER
       THEN [input |-> input1, acc |-> acc,
             slots |-> WriteSlot(ps.slots, acc,
                                 clone_account_view(ps.slots, hdr.borrow_state))]
       ELSE [input |-> AlignPointer(input1 + STATIC_ACCOUNT_DATA + hdr.data_len),
             acc |-> acc,
             slots |-> WriteSlot(ps.slots, acc, new_unchecked(account))]

RECURSIVE ProcessN(_, _, _, _)
\* process_accounts!(n => ...): n inlined repetitions of @process_account
ProcessN(buf, m, ps, n) ==
    IF n = 0 THEN ps ELSE ProcessN(buf, m, ProcessAccount(buf, m, ps), n - 1)

RECURSIVE BatchLoop_LoopAtFive(_, _, _, _)
\* variant of the batch loop that also takes a batch when exactly 5 are left
BatchLoop_LoopAtFive(buf, m, ps, tpp1) ==
    IF tpp1 >= 5 THEN BatchLoop_LoopAtFive(buf, m, ProcessN(buf, m, ps, 5), tpp1 - 5)
    ELSE IF tpp1 \in 1..5 THEN [ps |-> ProcessN(buf, m, ps, tpp1 - 1), ub |-> FALSE]
    ELSE [ps |-> ps, ub |-> TRUE]

RECURSIVE BatchLoop(_, _, _, _)
\* while to_process_plus_one > 5 { process 5; to_process_plus_one -= 5 }
\* followed by the tail match; returns [ps, ub]
BatchLoop(buf, m, ps, tpp1) ==
    IF tpp1 > 5 THEN BatchLoop(buf, m, ProcessN(buf, m, ps, 5), tpp1 - 5)
    ELSE IF tpp1 \in 1..5 THEN [ps |-> ProcessN(buf, m, ps, tpp1 - 1), ub |-> FALSE]
    ELSE [ps |-> ps, ub |-> TRUE]   \* unreachable_unchecked() reached

RECURSIVE SkipLoop(_, _, _, _)
\* while to_skip > 0 { ... }: walk a record without materializing a view
SkipLoop(buf, m, input, to_skip) ==
    IF to_skip = 0 THEN input
    ELSE LET hdr == ReadHeader(buf, m, input)
             input1 == input + SIZE_OF_U64
         IN SkipLoop(buf, m,
                     IF hdr.borrow_state = NON_DUP_MARKER
                     THEN AlignPointer(input1 + STATIC_ACCOUNT_DATA + hdr.data_len)
                     ELSE input1,
                     to_skip - 1)

\* instruction data and program id read at the final cursor; a cursor that is
\* not at the instruction_len word reads bytes that are not the instruction
ReadTail(buf, input, ps, processed, ub) ==
    LET ok == input = RecordOffset(buf, NumRecs(buf))
    IN [program_id |-> IF ok THEN buf.program_id ELSE "garbage",
        count |-> processed,
        instruction_data |-> IF ok THEN buf.ix ELSE <<"garbage">>,
        slots |-> ps.slots,
        ub |-> ub]

\* pub unsafe fn deserialize<const MAX_ACCOUNTS: usize>(input, accounts)
deserialize(buf, m, MAX_ACCOUNTS) ==
    LET processed0 == ReadAccountCount(buf)
        input0 == SIZE_OF_U64
        empty == [input |-> input0, acc |-> 0, slots |-> << >>]
    IN IF processed0 = 0
       THEN ReadTail(buf, input0, empty, 0, FALSE)
       ELSE
         LET hdr == ReadHeader(buf, m, input0)
             first == [input |-> AlignPointer(input0 + STATIC_ACCOUNT_DATA
                                              + SIZE_OF_U64 + hdr.data_len),
                       acc |-> 0,
                       slots |-> WriteSlot(<< >>, 0, new_unchecked(input0))]
         IN IF processed0 = 1
            THEN ReadTail(buf, first.input, first, 1, FALSE)
            ELSE
              LET tpp1 == IF MAX_ACCOUNTS < MAX_TX_ACCOUNTS
                          THEN Min(processed0, MAX_ACCOUNTS)
                          ELSE processed0
                  to_skip == processed0 - tpp1
                  done == IF tpp1 = 2
                          THEN [ps |-> ProcessN(buf, m, first, 1), ub |-> FALSE]
                          ELSE BatchLoop(buf, m, first, tpp1)
                  input2 == IF MAX_ACCOUNTS < MAX_TX_ACCOUNTS
                            THEN SkipLoop(buf, m, done.ps.input, to_skip)
                            ELSE done.ps.input
              IN ReadTail(buf, input2, done.ps, tpp1, done.ub)

----------------------------------------------------------------------------
(* Lazy cursor: crates/entrypoint, InstructionContext                      *)
(* ic is [buffer |-> byte cursor, remaining |-> accounts not yet read].    *)

\* InstructionContext::new_unchecked(input)
InstructionContext_new_unchecked(buf) ==
    [buffer |-> SIZE_OF_U64, remaining |-> ReadAccountCount(buf)]

\* MaybeAccount::Account(view) and MaybeAccount::Duplicated(index)
MaybeAccount_Account(view) == [tag |-> "Account", view |-> view, index |-> NON_DUP_MARKER]
MaybeAccount_Duplicated(index) == [tag |-> "Duplicated", view |-> [raw |-> -1], index |-> index]
NoAccount == [tag |-> "none", view |-> [raw |-> -1], index |-> NON_DUP_MARKER]

\* ptr.align_offset(align): bytes to add to reach the next multiple of align
align_offset(p, align) == (align - (p % align)) % align

\* variant of read_account that steps over a duplicate marker as if it were a
\* primary record
read_account_DupAsPrimary(buf, m, ic) ==
    LET account == ic.buffer
        hdr == ReadHeader(buf, m, account)
        b1 == ic.buffer + SIZE_OF_U64
        b2 == b1 + STATIC_ACCOUNT_DATA + hdr.data_len
    IN IF hdr.borrow_state = NON_DUP_MARKER
       THEN [ic |-> [ic EXCEPT !.buffer = b2 + align_offset(b2, BPF_ALIGN_OF_U128)],
             ret |-> MaybeAccount_Account(new_unchecked(account))]
       ELSE [ic |-> [ic EXCEPT !.buffer = b2 + align_offset(b2, BPF_ALIGN_OF_U128)],
             ret |-> MaybeAccount_Duplicated(hdr.borrow_state)]

\* unsafe fn read_account(&mut self) -> MaybeAccount
read_account(buf, m, ic) ==
    LET account == ic.buffer
        hdr == ReadHeader(buf, m, account)
        b1 == ic.buffer + SIZE_OF_U64
        b2 == b1 + STATIC_ACCOUNT_DATA + hdr.data_len
    IN IF hdr.borrow_state = NON_DUP_MARKER
       THEN [ic |-> [ic EXCEPT !.buffer = b2 + align_offset(b2, BPF_ALIGN_OF_U128)],
             ret |-> MaybeAccount_Account(new_unchecked(account))]
       ELSE [ic |-> [ic EXCEPT !.buffer = b1],
             ret |-> MaybeAccount_Duplicated(hdr.borrow_state)]

\* variant of next_account that reads before it tests remaining
next_account_ReadFirst(buf, m, ic) ==
    LET r == read_account(buf, m, ic)
    IN IF ic.remaining = 0
       THEN [err |-> "NotEnoughAccountKeys", ic |-> r.ic, ret |-> NoAccount]
       ELSE [err |-> "Ok", ic |-> [r.ic EXCEPT !.remaining = @ - 1], ret |-> r.ret]

\* pub fn next_account(&mut self) -> Result<MaybeAccount>
next_account(buf, m, ic) ==
    IF ic.remaining = 0      \* checked_sub(1) of 0
    THEN [err |-> "NotEnoughAccountKeys", ic |-> ic, ret |-> NoAccount]
    ELSE LET r == read_account(buf, m, [ic EXCEPT !.remaining = @ - 1])
         IN [err |-> "Ok", ic |-> r.ic, ret |-> r.ret]

\* pub unsafe fn next_account_unchecked(&mut self) -> MaybeAccount
next_account_unchecked(buf, m, ic) ==
    LET r == read_account(buf, m, ic)
    IN [err |-> "Ok", ic |-> r.ic, ret |-> r.ret]

\* pub fn remaining(&self) -> u64
remaining(ic) == ic.remaining

\* what is found at a cursor that does not stand at the instruction_len word
Garbage == <<-1>>
GarbageId == "garbage"

\* pub unsafe fn instruction_data_unchecked(&self) -> &[u8]
instruction_data_unchecked(buf, ic) ==
    IF ic.buffer = RecordOffset(buf, NumRecs(buf)) THEN buf.ix ELSE Garbage

\* pub unsafe fn program_id_unchecked(&self) -> &Address
program_id_unchecked(buf, ic) ==
    IF ic.buffer = RecordOffset(buf, NumRecs(buf)) THEN buf.program_id ELSE GarbageId

\* variant of instruction_data without the test of remaining
instruction_data_NoGuard(buf, ic) ==
    [err |-> "Ok", val |-> instruction_data_unchecked(buf, ic)]

\* pub fn instruction_data(&self) -> Result<&[u8]>
instruction_data(buf, ic) ==
    IF ic.remaining > 0
    THEN [err |-> "InvalidInstructionData", val |-> << >>]
    ELSE [err |-> "Ok", val |-> instruction_data_unchecked(buf, ic)]

\* pub fn program_id(&self) -> Result<&Address>
program_id(buf, ic) ==
    IF ic.remaining > 0
    THEN [err |-> "InvalidInstructionData", val |-> "none"]
    ELSE [err |-> "Ok", val |-> program_id_unchecked(buf, ic)]

----------------------------------------------------------------------------
(* Borrow State cell of an account (spec 3, 4.2)                            *)

Unborrowed == [tag |-> "Unborrowed", n |-> 0]
Shared(n) == [tag |-> "Shared", n |-> n]
Exclusive == [tag |-> "Exclusive", n |-> 0]

\* AccountView::try_borrow: Shared + 1 unless Exclusive is outstanding
try_borrow(st) ==
    IF st.tag = "Exclusive"
    THEN [ok |-> FALSE, st |-> st]
    ELSE [ok |-> TRUE, st |-> Shared(st.n + 1)]

\* AccountView::try_borrow_mut: Unborrowed -> Exclusive, else conflict
try_borrow_mut(st) ==
    IF st.tag = "Unborrowed"
    THEN [ok |-> TRUE, st |-> Exclusive]
    ELSE [ok |-> FALSE, st |-> st]

\* Drop for Ref: reverses Shared + 1
drop_ref(st) ==
    IF st.tag = "Shared" /\ st.n > 1 THEN Shared(st.n - 1) ELSE Unborrowed

\* Drop for RefMut: reverses Unborrowed -> Exclusive
drop_ref_mut(st) == Unborrowed

----------------------------------------------------------------------------
(* Results of the checked operations                                       *)
(* error_msg!(msg, code) logs msg and returns Err(code.into())             *)

ErrResult(st, err, msg) ==
    [err |-> err, msg |-> msg, st |-> st, guard |-> "none"]

OkResult(st, kind) ==
    [err |-> "Ok", msg |-> "", st |-> st, guard |-> kind]

----------------------------------------------------------------------------
(* Discriminator & Typed-Cast layer: crates/ser/src/zc.rs                  *)
(* acct is the RuntimeAccount the view points to, st its Borrow State.     *)

\* variant of try_deserialize_zc that checks the length before the owner
try_deserialize_zc_LenFirst(T, acct, st) ==
    IF Len(acct.data) # DISCRIMINATED_LEN(T)
    THEN ErrResult(st, "InvalidAccountData", "try_deserialize_zc: wrong data length")
    ELSE IF acct.owner # OWNER(T)
    THEN ErrResult(st, "InvalidAccountOwner", "try_deserialize_zc: wrong account owner")
    ELSE
      LET b == try_borrow(st)
      IN IF ~b.ok
         THEN ErrResult(st, "AccountBorrowFailed", "")
         ELSE IF Slice(acct.data, 0, DISC_LEN) # DISCRIMINATOR(T)
         THEN ErrResult(drop_ref(b.st), "InvalidAccountData",
                        "try_deserialize_zc: invalid discriminator")
         ELSE OkResult(b.st, "Ref")

\* variant of try_deserialize_zc that hands out the typed reference without
\* keeping the borrow it was made under
try_deserialize_zc_Unguarded(T, acct, st) ==
    IF acct.owner # OWNER(T)
    THEN ErrResult(st, "InvalidAccountOwner", "try_deserialize_zc: wrong account owner")
    ELSE
      LET b == try_borrow(st)
      IN IF ~b.ok
         THEN ErrResult(st, "AccountBorrowFailed", "")
         ELSE IF Len(acct.data) # DISCRIMINATED_LEN(T)
         THEN ErrResult(drop_ref(b.st), "InvalidAccountData",
                        "try_deserialize_zc: wrong data length")
         ELSE IF Slice(acct.data, 0, DISC_LEN) # DISCRIMINATOR(T)
         THEN ErrResult(drop_ref(b.st), "InvalidAccountData",
                        "try_deserialize_zc: invalid discriminator")
         ELSE OkResult(drop_ref(b.st), "Ref")

\* variant of try_deserialize_zc whose early returns forget to release the
\* borrow taken at the top
try_deserialize_zc_Leak(T, acct, st) ==
    IF acct.owner # OWNER(T)
    THEN ErrResult(st, "InvalidAccountOwner", "try_deserialize_zc: wrong account owner")
    ELSE
      LET b == try_borrow(st)
      IN IF ~b.ok
         THEN ErrResult(st, "AccountBorrowFailed", "")
         ELSE IF Len(acct.data) # DISCRIMINATED_LEN(T)
         THEN ErrResult(b.st, "InvalidAccountData",
                        "try_deserialize_zc: wrong data length")
         ELSE IF Slice(acct.data, 0, DISC_LEN) # DISCRIMINATOR(T)
         THEN ErrResult(b.st, "InvalidAccountData",
                        "try_deserialize_zc: invalid discriminator")
         ELSE OkResult(b.st, "Ref")

\* pub fn try_deserialize_zc<T>(account_view) -> Result<Ref<T>>
try_deserialize_zc(T, acct, st) ==
    IF acct.owner # OWNER(T)
    THEN ErrResult(st, "InvalidAccountOwner", "try_deserialize_zc: wrong account owner")
    ELSE
      LET b == try_borrow(st)
      IN IF ~b.ok
         THEN ErrResult(st, "AccountBorrowFailed", "")
         \* from here on `data` is a live Ref, dropped on every early return
         ELSE IF Len(acct.data) # DISCRIMINATED_LEN(T)
         THEN ErrResult(drop_ref(b.st), "InvalidAccountData",
                        "try_deserialize_zc: wrong data length")
         ELSE IF Len(acct.data) < DISC_LEN
         THEN ErrResult(drop_ref(b.st), "panic", "range end index 8 out of range")
         ELSE IF Slice(acct.data, 0, DISC_LEN) # DISCRIMINATOR(T)
         THEN ErrResult(drop_ref(b.st), "InvalidAccountData",
                        "try_deserialize_zc: invalid discriminator")
         ELSE OkResult(b.st, "Ref")

\* variant of try_deserialize_zc_mut that accepts data longer than
\* DISCRIMINATED_LEN
try_deserialize_zc_mut_LenAtLeast(T, acct, st) ==
    IF acct.owner # OWNER(T)
    THEN ErrResult(st, "InvalidAccountOwner", "try_deserialize_zc_mut: wrong account owner")
    ELSE
      LET b == try_borrow_mut(st)
      IN IF ~b.ok
         THEN ErrResult(st, "AccountBorrowFailed", "")
         ELSE IF Len(acct.data) < DISCRIMINATED_LEN(T)
         THEN ErrResult(drop_ref_mut(b.st), "InvalidAccountData",
                        "try_deserialize_zc_mut: wrong data length")
         ELSE IF Slice(acct.data, 0, DISC_LEN) # DISCRIMINATOR(T)
         THEN ErrResult(drop_ref_mut(b.st), "InvalidAccountData",
                        "try_deserialize_zc_mut: invalid discriminator")
         ELSE OkResult(b.st, "RefMut")

\* variant of try_deserialize_zc_mut that takes a shared borrow
try_deserialize_zc_mut_SharedBorrow(T, acct, st) ==
    IF acct.owner # OWNER(T)
    THEN ErrResult(st, "InvalidAccountOwner", "try_deserialize_zc_mut: wrong account owner")
    ELSE
      LET b == try_borrow(st)
      IN IF ~b.ok
         THEN ErrResult(st, "AccountBorrowFailed", "")
         ELSE IF Len(acct.data) # DISCRIMINATED_LEN(T)
         THEN ErrResult(drop_ref(b.st), "InvalidAccountData",
                        "try_deserialize_zc_mut: wrong data length")
         ELSE IF Slice(acct.data, 0, DISC_LEN) # DISCRIMINATOR(T)
         THEN ErrResult(drop_ref(b.st), "InvalidAccountData",
                        "try_deserialize_zc_mut: invalid discriminator")
         ELSE OkResult(b.st, "Ref")

\* variant of try_deserialize_zc_mut whose early returns keep the exclusive
\* borrow taken at the top
try_deserialize_zc_mut_Leak(T, acct, st) ==
    IF acct.owner # OWNER(T)
    THEN ErrResult(st, "InvalidAccountOwner", "try_deserialize_zc_mut: wrong account owner")
    ELSE
      LET b == try_borrow_mut(st)
      IN IF ~b.ok
         THEN ErrResult(st, "AccountBorrowFailed", "")
         ELSE IF Len(acct.data) # DISCRIMINATED_LEN(T)
         THEN ErrResult(b.st, "InvalidAccountData",
                        "try_deserialize_zc_mut: wrong data length")
         ELSE IF Slice(acct.data, 0, DISC_LEN) # DISCRIMINATOR(T)
         THEN ErrResult(b.st, "InvalidAccountData",
                        "try_deserialize_zc_mut: invalid discriminator")
         ELSE OkResult(b.st, "RefMut")

\* pub fn try_deserialize_zc_mut<T>(account_view) -> Result<RefMut<T>>
try_deserialize_zc_mut(T, acct, st) ==
    IF acct.owner # OWNER(T)
    THEN ErrResult(st, "InvalidAccountOwner", "try_deserialize_zc_mut: wrong account owner")
    ELSE
      LET b == try_borrow_mut(st)
      IN IF ~b.ok
         THEN ErrResult(st, "AccountBorrowFailed", "")
         ELSE IF Len(acct.data) # DISCRIMINATED_LEN(T)
         THEN ErrResult(drop_ref_mut(b.st), "InvalidAccountData",
                        "try_deserialize_zc_mut: wrong data length")
         ELSE IF Len(acct.data) < DISC_LEN
         THEN ErrResult(drop_ref_mut(b.st), "panic", "range end index 8 out of range")
         ELSE IF Slice(acct.data, 0, DISC_LEN) # DISCRIMINATOR(T)
         THEN ErrResult(drop_ref_mut(b.st), "InvalidAccountData",
                        "try_deserialize_zc_mut: invalid discriminator")
         ELSE OkResult(b.st, "RefMut")

\* variant of try_deserialize_raw that also compares the discriminator
try_deserialize_raw_WithDiscriminator(T, acct, st) ==
    IF acct.owner # OWNER(T)
    THEN ErrResult(st, "InvalidAccountOwner", "try_deserialize_raw: wrong account owner")
    ELSE IF Len(acct.data) # DISCRIMINATED_LEN(T)
    THEN ErrResult(st, "InvalidAccountData", "try_deserialize_raw: wrong data length")
    ELSE IF Slice(acct.data, 0, DISC_LEN) # DISCRIMINATOR(T)
    THEN ErrResult(st, "InvalidAccountData", "try_deserialize_raw: invalid discriminator")
    ELSE
      LET b == try_borrow(st)
      IN IF ~b.ok
         THEN ErrResult(st, "AccountBorrowFailed", "")
         ELSE OkResult(b.st, "Ref")

\* RawZcDeserialize::try_deserialize_raw(account_view) -> Result<Ref<T>>
try_deserialize_raw(T, acct, st) ==
    IF acct.owner # OWNER(T)
    THEN ErrResult(st, "InvalidAccountOwner", "try_deserialize_raw: wrong account owner")
    ELSE IF Len(acct.data) # DISCRIMINATED_LEN(T)
    THEN ErrResult(st, "InvalidAccountData", "try_deserialize_raw: wrong data length")
    ELSE
      LET b == try_borrow(st)
      IN IF ~b.ok
         THEN ErrResult(st, "AccountBorrowFailed", "")
         ELSE OkResult(b.st, "Ref")

\* RawZcDeserializeMut::try_deserialize_raw_mut(account_view) -> Result<RefMut<T>>
try_deserialize_raw_mut(T, acct, st) ==
    IF acct.owner # OWNER(T)
    THEN ErrResult(st, "InvalidAccountOwner", "try_deserialize_raw_mut: wrong account owner")
    ELSE IF Len(acct.data) # DISCRIMINATED_LEN(T)
    THEN ErrResult(st, "InvalidAccountData", "try_deserialize_raw_mut: wrong data length")
    ELSE
      LET b == try_borrow_mut(st)
      IN IF ~b.ok
         THEN ErrResult(st, "AccountBorrowFailed", "")
         ELSE OkResult(b.st, "RefMut")

\* hayabusa_token: declare_id!, the program every token account is owned by
TOKEN_ID == "TokenkegQfeZyiNwAJbNbGKPFXCWuBvf9Ss623VQ5DA"

\* the token state structs with a hand-written RawZcDeserialize
TokenTypes == {"TokenAccount", "Mint"}

\* TokenAccount::LEN / Mint::LEN : core::mem::size_of of a #[repr(C)] struct
\* of byte arrays, Addresses (32 bytes) and u8 fields, hence without padding
LEN(T) ==
    IF T = "TokenAccount"
    THEN 32 + 32 + 8 + 4 + 32 + 1 + 4 + 8 + 8 + 4 + 32
    ELSE 4 + 32 + 8 + 1 + 1 + 4 + 32

\* <TokenAccount as RawZcDeserialize>::try_deserialize_raw(account_view)
TokenAccount_try_deserialize_raw(acct, st) ==
    IF Len(acct.data) # LEN("TokenAccount")
    THEN ErrResult(st, "InvalidAccountData",
                   "TokenAccount::try_deserialize_raw: data length mismatch")
    ELSE IF acct.owner # TOKEN_ID
    THEN ErrResult(st, "InvalidAccountOwner",
                   "TokenAccount::try_deserialize_raw: invalid owner")
    ELSE
      LET b == try_borrow(st)
      IN IF ~b.ok
         THEN ErrResult(st, "AccountBorrowFailed", "")
         ELSE OkResult(b.st, "Ref")

\* <Mint as RawZcDeserialize>::try_deserialize_raw(account_view)
Mint_try_deserialize_raw(acct, st) ==
    IF Len(acct.data) # LEN("Mint")
    THEN ErrResult(st, "InvalidAccountData",
                   "Mint::try_deserialize_raw: data length mismatch")
    ELSE IF acct.owner # TOKEN_ID
    THEN ErrResult(st, "InvalidAccountOwner",
                   "Mint::try_deserialize_raw: invalid owner")
    ELSE
      LET b == try_borrow(st)
      IN IF ~b.ok
         THEN ErrResult(st, "AccountBorrowFailed", "")
         ELSE OkResult(b.st, "Ref")

\* RawZcDeserializeUnchecked::try_deserialize_raw_unchecked(account_view)
\*   -> Result<&T>; borrow_unchecked() leaves the Borrow State alone
try_deserialize_raw_unchecked(T, acct, st) ==
    IF acct.owner # OWNER(T)
    THEN ErrResult(st, "InvalidAccountOwner",
                   "try_deserialize_raw_unchecked: wrong account owner")
    ELSE IF Len(acct.data) # DISCRIMINATED_LEN(T)
    THEN ErrResult(st, "InvalidAccountData",
                   "try_deserialize_raw_unchecked: wrong data length")
    ELSE IF Slice(acct.data, 0, DISC_LEN) # DISCRIMINATOR(T)
    THEN ErrResult(st, "InvalidAccountDiscriminator",
                   "try_deserialize_raw_unchecked: invalid discriminator")
    ELSE OkResult(st, "none")

\* RawZcDeserializeUncheckedMut::try_deserialize_raw_unchecked_mut(account_view)
\*   -> Result<&mut T>; borrow_unchecked_mut() leaves the Borrow State alone
try_deserialize_raw_unchecked_mut(T, acct, st) ==
    IF acct.owner # OWNER(T)
    THEN ErrResult(st, "InvalidAccountOwner",
                   "try_deserialize_raw_unchecked_mut: wrong account owner")
    ELSE IF Len(acct.data) # DISCRIMINATED_LEN(T)
    THEN ErrResult(st, "InvalidAccountData",
                   "try_deserialize_raw_unchecked_mut: wrong data length")
    ELSE OkResult(st, "none")

\* the typed value a successful cast exposes: bytes [8..DISCRIMINATED_LEN)
TypedPayload(T, data) == Slice(data, DISC_LEN, DISCRIMINATED_LEN(T))

----------------------------------------------------------------------------
(* Initialization: try_initialize_zc and its collaborators                 *)
(* init is an InitAccounts value: [owner_program_id, payer_account,        *)
(* system_program], the two accounts given by their addresses.             *)

\* CheckProgramId::check_program_id of CreateAccount (ID = system program)
check_program_id(id) == id = SYSTEM_ID

\* the instruction create_account hands to invoke / invoke_signed
CreateAccountRequest(from, to, owner_program, space) ==
    [from |-> from, to |-> to, space |-> space, owner |-> owner_program]

\* no request was made
NoRequest == [from |-> "none", to |-> "none", space |-> 0, owner |-> "none"]

\* the "create account" primitive of the host: fails if the target is already
\* allocated, else allocates `space` zeroed bytes and assigns the owner
SystemCreateAccount(acct, req) ==
    IF Len(acct.data) # 0
    THEN [ok |-> FALSE, acct |-> acct]
    ELSE [ok |-> TRUE,
          acct |-> [acct EXCEPT !.data = Zeros(req.space), !.owner = req.owner]]

\* variant of try_initialize_zc that writes the discriminator after the
\* first 8 bytes
try_initialize_zc_DiscAtPayload(T, acct, st, init) ==
    IF ~check_program_id(init.system_program)
    THEN [err |-> "IncorrectProgramId",
          msg |-> "HAYABUSA_CPI_PROGRAM_ID_INCORRECT_PROGRAM_ID",
          st |-> st, guard |-> "none", acct |-> acct, req |-> NoRequest]
    ELSE
      LET req == CreateAccountRequest(init.payer_account, acct.address,
                                      init.owner_program_id, DISCRIMINATED_LEN(T))
          cpi == SystemCreateAccount(acct, req)
          b == try_borrow_mut(st)
      IN IF ~cpi.ok
         THEN [err |-> "AccountAlreadyInUse", msg |-> "",
               st |-> st, guard |-> "none", acct |-> acct, req |-> req]
         ELSE IF ~b.ok
         THEN [err |-> "AccountBorrowFailed", msg |-> "",
               st |-> st, guard |-> "none", acct |-> cpi.acct, req |-> req]
         ELSE [err |-> "Ok", msg |-> "", st |-> b.st, guard |-> "RefMut",
               acct |-> [cpi.acct EXCEPT !.data =
                            Slice(cpi.acct.data, 0, DISC_LEN) \o DISCRIMINATOR(T)],
               req |-> req]

try_initialize_zc_IgnoreCpi(T, acct, st, init) ==
    IF ~check_program_id(init.system_program)
    THEN [err |-> "IncorrectProgramId",
          msg |-> "HAYABUSA_CPI_PROGRAM_ID_INCORRECT_PROGRAM_ID",
          st |-> st, guard |-> "none", acct |-> acct, req |-> NoRequest]
    ELSE
      LET req == CreateAccountRequest(init.payer_account, acct.address,
                                      init.owner_program_id, DISCRIMINATED_LEN(T))
          cpi == SystemCreateAccount(acct, req)
          b == try_borrow_mut(st)
      IN IF ~b.ok
         THEN [err |-> "AccountBorrowFailed", msg |-> "",
               st |-> st, guard |-> "none", acct |-> cpi.acct, req |-> req]
         ELSE [err |-> "Ok", msg |-> "", st |-> b.st, guard |-> "RefMut",
               acct |-> [cpi.acct EXCEPT !.data =
                            DISCRIMINATOR(T) \o Slice(cpi.acct.data, DISC_LEN,
                                                      Len(cpi.acct.data))],
               req |-> req]

\* pub fn try_initialize_zc<T>(target_account, init_accounts, signers)
try_initialize_zc(T, acct, st, init) ==
    IF ~check_program_id(init.system_program)
    THEN [err |-> "IncorrectProgramId",
          msg |-> "HAYABUSA_CPI_PROGRAM_ID_INCORRECT_PROGRAM_ID",
          st |-> st, guard |-> "none", acct |-> acct, req |-> NoRequest]
    ELSE
      LET req == CreateAccountRequest(init.payer_account, acct.address,
                                      init.owner_program_id, DISCRIMINATED_LEN(T))
          cpi == SystemCreateAccount(acct, req)
          b == try_borrow_mut(st)
      IN IF ~cpi.ok
         THEN [err |-> "AccountAlreadyInUse", msg |-> "",
               st |-> st, guard |-> "none", acct |-> acct, req |-> req]
         ELSE IF ~b.ok
         THEN [err |-> "AccountBorrowFailed", msg |-> "",
               st |-> st, guard |-> "none", acct |-> cpi.acct, req |-> req]
         ELSE [err |-> "Ok", msg |-> "", st |-> b.st, guard |-> "RefMut",
               acct |-> [cpi.acct EXCEPT !.data =
                            DISCRIMINATOR(T) \o Slice(cpi.acct.data, DISC_LEN,
                                                      Len(cpi.acct.data))],
               req |-> req]

----------------------------------------------------------------------------
(* Bump allocator: crates/entrypoint, mod alloc                            *)
(* h is [start, end, pos]: the two fields of BumpAllocator and the usize    *)
(* stored at address start (0 until the first allocation).                 *)

NULL == 0

\* BumpAllocator::new_unchecked(start, len), on memory the runtime zeroed
BumpAllocator_new_unchecked(start, len) ==
    [start |-> start, end |-> start + len, pos |-> 0]

\* (pos + align - 1) & !(align - 1), align a power of two
AlignUp(pos, align) == ((pos + align - 1) \div align) * align

\* variant of alloc without the test against self.end
alloc_NoEndCheck(h, size, align) ==
    LET pos == IF h.pos = 0 THEN h.start + SIZE_OF_USIZE ELSE h.pos
        allocation == AlignUp(pos, align)
    IN IF size > MAX_HEAP_LENGTH
       THEN [ret |-> NULL, pos |-> h.pos]
       ELSE [ret |-> allocation, pos |-> allocation + size]

\* variant of alloc that stores the new position before testing the request
alloc_StoreFirst(h, size, align) ==
    LET pos == IF h.pos = 0 THEN h.start + SIZE_OF_USIZE ELSE h.pos
        allocation == AlignUp(pos, align)
    IN IF size > MAX_HEAP_LENGTH \/ h.end < allocation + size
       THEN [ret |-> NULL, pos |-> Min(allocation + size, h.end)]
       ELSE [ret |-> allocation, pos |-> allocation + size]

\* GlobalAlloc::alloc(&self, layout): the pointer returned and the usize left
\* at address start
alloc(h, size, align) ==
    LET pos == IF h.pos = 0 THEN h.start + SIZE_OF_USIZE ELSE h.pos
        allocation == AlignUp(pos, align)
    IN IF size > MAX_HEAP_LENGTH \/ h.end < allocation + size
       THEN [ret |-> NULL, pos |-> h.pos]
       ELSE [ret |-> allocation, pos |-> allocation + size]

\* variant of dealloc that gives the freed block back by rewinding the position
dealloc_Rewind(h, ptr, size, align) == ptr

\* GlobalAlloc::dealloc(&self, _, _) {}: the usize left at address start
dealloc(h, ptr, size, align) == h.pos

----------------------------------------------------------------------------
(* Error codes: crates/errors/src/error_code.rs                            *)

\* enum ErrorCode, in declaration order
ErrorCodeVariants ==
    <<"UnknownInstruction", "BufferFull", "InvalidAccountDiscriminator",
      "AccountNotSigner", "InvalidAccount", "AccountNotWritable">>

ErrorCodes == {ErrorCodeVariants[i] : i \in DOMAIN ErrorCodeVariants}

\* e as u32: UnknownInstruction = 100, each later variant one more than the
\* variant before it
as_u32(e) ==
    100 + (CHOOSE i \in DOMAIN ErrorCodeVariants : ErrorCodeVariants[i] = e) - 1

\* impl From<ErrorCode> for ProgramError
ProgramError_from(e) == [kind |-> "Custom", code |-> as_u32(e)]

\* impl TryFrom<u32> for ErrorCode
ErrorCode_try_from(value) ==
    CASE value = 100 -> [ok |-> TRUE, val |-> "UnknownInstruction"]
      [] value = 101 -> [ok |-> TRUE, val |-> "BufferFull"]
      [] value = 102 -> [ok |-> TRUE, val |-> "InvalidAccountDiscriminator"]
      [] value = 105 -> [ok |-> TRUE, val |-> "AccountNotSigner"]
      [] value = 106 -> [ok |-> TRUE, val |-> "InvalidAccount"]
      [] value = 107 -> [ok |-> TRUE, val |-> "AccountNotWritable"]
      [] OTHER -> [ok |-> FALSE, val |-> "InvalidArgument"]

----------------------------------------------------------------------------
(* Rent sysvar: crates/sysvars/src/rent.rs                                 *)
(* A u64 is its to_le_bytes(): 8 bytes, least significant first, so that   *)
(* products are taken modulo 2^64 exactly as the machine takes them.       *)

RECURSIVE ToBytes(_, _)
\* the k least significant bytes of a natural number
ToBytes(n, k) == IF k = 0 THEN << >> ELSE <<n % 256>> \o ToBytes(n \div 256, k - 1)

\* a value written in the source as an integer literal
U64(n) == ToBytes(n, SIZE_OF_U64)

\* byte i (1-based) of a byte string, 0 beyond its end
ByteAt(a, i) == IF i \in DOMAIN a THEN a[i] ELSE 0

RECURSIVE GtFrom(_, _, _)
\* a > b, comparing from byte i downwards
GtFrom(a, b, i) ==
    IF i = 0 THEN FALSE
    ELSE IF ByteAt(a, i) # ByteAt(b, i) THEN ByteAt(a, i) > ByteAt(b, i)
    ELSE GtFrom(a, b, i - 1)

\* a > b on unsigned integers of any width
Gt(a, b) == GtFrom(a, b, IF Len(a) > Len(b) THEN Len(a) ELSE Len(b))

RECURSIVE Carry(_, _, _, _)
\* bytes i..n of the number whose i-th column sum is col[i], carry coming in
Carry(col, i, n, carry) ==
    IF i > n THEN << >>
    ELSE LET t == col[i] + carry
         IN <<t % 256>> \o Carry(col, i + 1, n, t \div 256)

RECURSIVE ColumnSum(_, _, _, _)
\* sum of a[i] * b[k + 1 - i] for i = 1..j
ColumnSum(a, b, k, j) ==
    IF j = 0 THEN 0
    ELSE ByteAt(a, j) * ByteAt(b, k + 1 - j) + ColumnSum(a, b, k, j - 1)

\* the exact sum and the exact product of two u64, 16 bytes wide
WideAdd(a, b) ==
    Carry([i \in 1..(2 * SIZE_OF_U64) |-> ByteAt(a, i) + ByteAt(b, i)],
          1, 2 * SIZE_OF_U64, 0)
WideMul(a, b) ==
    Carry([k \in 1..(2 * SIZE_OF_U64) |-> ColumnSum(a, b, k, k)],
          1, 2 * SIZE_OF_U64, 0)

\* the low 8 bytes: what a u64 operation leaves when it wraps
Low(w) == SubSeq(w, 1, SIZE_OF_U64)
\* the exact result does not fit a u64
Overflows(w) == \E i \in (SIZE_OF_U64 + 1)..Len(w) : w[i] # 0

\* a + b and a * b on u64: the wrapped value and whether the operation overflowed
u64_add(a, b) == [val |-> Low(WideAdd(a, b)), overflow |-> Overflows(WideAdd(a, b))]
u64_mul(a, b) == [val |-> Low(WideMul(a, b)), overflow |-> Overflows(WideMul(a, b))]

\* const MAX_PERMITTED_DATA_LENGTH: u64 = 10 * 1024 * 1024
MAX_PERMITTED_DATA_LENGTH == 10 * 1024 * 1024
\* pub const DEFAULT_LAMPORTS_PER_BYTE: u64 = 6960
DEFAULT_LAMPORTS_PER_BYTE == 6960
\* pub const ACCOUNT_STORAGE_OVERHEAD: u64 = 128
ACCOUNT_STORAGE_OVERHEAD == 128
\* const CURRENT_EXEMPTION_THRESHOLD: 2.0f64.to_le_bytes()
CURRENT_EXEMPTION_THRESHOLD == <<0, 0, 0, 0, 0, 0, 0, 64>>
\* const SIMD0194_EXEMPTION_THRESHOLD: 1.0f64.to_le_bytes()
SIMD0194_EXEMPTION_THRESHOLD == <<0, 0, 0, 0, 0, 0, 240, 63>>
\* const SIMD0194_MAX_LAMPORTS_PER_BYTE: u64 = 1_759_197_129_867 = 0x1999851EC8B
SIMD0194_MAX_LAMPORTS_PER_BYTE == <<139, 236, 81, 152, 153, 1, 0, 0>>
\* const CURRENT_MAX_LAMPORTS_PER_BYTE: u64 = 879_598_564_933 = 0xCCCC28F645
CURRENT_MAX_LAMPORTS_PER_BYTE == <<69, 246, 40, 204, 204, 0, 0, 0>>

\* Rent { lamports_per_byte, exemption_threshold }
Rent(lamports_per_byte, exemption_threshold) ==
    [lamports_per_byte |-> lamports_per_byte,
     exemption_threshold |-> exemption_threshold]

\* nothing was computed
NoBalance == [kind |-> "none", val |-> << >>, overflow |-> FALSE]

\* pub fn minimum_balance_unchecked(&self, data_len) -> u64: the value the
\* wrapping arithmetic leaves and whether a multiplication or addition
\* overflowed on the way (a panic when overflow checks are compiled in)
minimum_balance_unchecked(self, data_len) ==
    LET bytes == U64(data_len)
        sum == u64_add(U64(ACCOUNT_STORAGE_OVERHEAD), bytes)
    IN IF self.exemption_threshold = SIMD0194_EXEMPTION_THRESHOLD
       THEN LET p == u64_mul(sum.val, self.lamports_per_byte)
            IN [kind |-> "integer", val |-> p.val,
                overflow |-> sum.overflow \/ p.overflow]
       ELSE IF self.exemption_threshold = CURRENT_EXEMPTION_THRESHOLD
       THEN LET d == u64_mul(U64(2), sum.val)
                p == u64_mul(d.val, self.lamports_per_byte)
            IN [kind |-> "integer", val |-> p.val,
                overflow |-> sum.overflow \/ d.overflow \/ p.overflow]
       \* floating-point product off-chain, panic on BPF: value not computed
       ELSE [kind |-> "float", val |-> << >>, overflow |-> FALSE]

\* pub fn try_minimum_balance(&self, data_len: usize) -> Result<u64>
try_minimum_balance(self, data_len) ==
    IF data_len > MAX_PERMITTED_DATA_LENGTH
    THEN [err |-> "InvalidArgument", r |-> NoBalance]
    ELSE IF Gt(self.lamports_per_byte, CURRENT_MAX_LAMPORTS_PER_BYTE)
         THEN IF self.exemption_threshold = CURRENT_EXEMPTION_THRESHOLD
              THEN [err |-> "InvalidArgument", r |-> NoBalance]
              ELSE [err |-> "Ok", r |-> minimum_balance_unchecked(self, data_len)]
    ELSE IF Gt(self.lamports_per_byte, SIMD0194_MAX_LAMPORTS_PER_BYTE)
         THEN IF self.exemption_threshold = SIMD0194_EXEMPTION_THRESHOLD
              THEN [err |-> "InvalidArgument", r |-> NoBalance]
              ELSE [err |-> "Ok", r |-> minimum_balance_unchecked(self, data_len)]
    ELSE [err |-> "Ok", r |-> minimum_balance_unchecked(self, data_len)]

----------------------------------------------------------------------------
(* Inputs the host can hand to the program                                  *)

Account(address, owner, data) == [address |-> address, owner |-> owner, data |-> data]

\* the 8 bytes of a duplicate marker, read as if they were an account header
PadAccount == Account("pad", "pad", << >>)

\* the system program's own account, as passed to CPI callers
SystemProgramAccount == Account(SYSTEM_ID, LOADER_ID, Fill(14, 115))

\* an unallocated, system-owned account
UninitAccount(address) == Account(address, SYSTEM_ID, << >>)

\* the first n bytes of prefix followed by fill bytes
DataOf(n, prefix, fill) ==
    [i \in 1..n |-> IF i <= Len(prefix) THEN prefix[i] ELSE fill]

BadDiscriminator == <<1, 2, 3, 4, 5, 6, 7, 8>>

\* contents of the account the typed-cast operations are exercised on
CastTargets ==
    {UninitAccount("target")}
    \cup {Account("target", OTHER_ID, DataOf(n, d, 0)) :
            n \in {DISC_LEN - 1, DISCRIMINATED_LEN("CounterAccount")},
            d \in {DISCRIMINATOR("CounterAccount"), BadDiscriminator}}
    \cup {Account("target", PROGRAM_ID, DataOf(n, d, 0)) :
            n \in {DISC_LEN - 1, DISCRIMINATED_LEN("CounterAccount") - 1,
                   DISCRIMINATED_LEN("CounterAccount") + 1},
            d \in {DISCRIMINATOR("CounterAccount"), BadDiscriminator}}
    \cup {Account("target", PROGRAM_ID,
                  DataOf(DISCRIMINATED_LEN("CounterAccount"), d, f)) :
            d \in {DISCRIMINATOR("CounterAccount"), DISCRIMINATOR("Test"),
                   BadDiscriminator},
            f \in {0, 7}}

\* buffer [target, duplicate of 0, payer, system program] around a target content
\* contents of the account the token casts are exercised on
TokenTargets ==
    {Account("target", o, Fill(n, 0)) :
        o \in {TOKEN_ID, OTHER_ID},
        n \in {DISC_LEN - 1, LEN("Mint"), LEN("TokenAccount"),
               LEN("TokenAccount") + 1}}

CastMem(c) ==
    [k \in 0..3 |-> IF k = 0 THEN c
                    ELSE IF k = 1 THEN PadAccount
                    ELSE IF k = 2 THEN UninitAccount("payer")
                    ELSE SystemProgramAccount]

CastBuffer(c) ==
    [recs |-> [k \in 0..3 |->
                 [marker |-> IF k = 1 THEN 0 ELSE NON_DUP_MARKER,
                  data_len |-> Len(CastMem(c)[k].data)]],
     ix |-> <<1>>,
     program_id |-> PROGRAM_ID]

\* the views of the account under test, and the accounts passed as payer and
\* as system program in an InitAccounts value
TargetViews(buf, views) == {v \in views : Phys(buf, v) = 0}
PayerViews(buf, views) == {v \in views : v = 2}
SystemViews(buf, views) == {v \in views : v >= 2}

\* contents of the primary records of the aliasing buffers
AliasContents ==
    {Account("acct", PROGRAM_ID, DataOf(DISCRIMINATED_LEN("CounterAccount"),
                                         DISCRIMINATOR("CounterAccount"), 0)),
     Account("acct", OTHER_ID, <<1, 2, 3>>)}

\* conformant record lists of n records: record 0 is primary, a duplicate
\* marker names an earlier primary record
AliasRecords(n) ==
    {r \in [0..(n - 1) -> [marker : {NON_DUP_MARKER} \cup 0..(n - 2),
                           content : AliasContents \cup {PadAccount}]] :
        \A k \in 0..(n - 1) :
            IF r[k].marker = NON_DUP_MARKER
            THEN r[k].content \in AliasContents
            ELSE /\ r[k].marker < k
                 /\ r[r[k].marker].marker = NON_DUP_MARKER
                 /\ r[k].content = PadAccount}

AliasBuffer(r) ==
    [recs |-> [k \in DOMAIN r |->
                 [marker |-> r[k].marker, data_len |-> Len(r[k].content.data)]],
     ix |-> <<1>>,
     program_id |-> PROGRAM_ID]

AliasMem(r) == [k \in DOMAIN r |-> r[k].content]

\* data lengths of the primary records of the parser buffers (3 forces padding)
ParseLens == {0, 3}

\* data lengths tried for a primary record at index k: both for the first two
\* records, alternating after them
ParseLensAt(k) == IF k < 2 THEN ParseLens ELSE {3 * (k % 2)}

\* the records that may follow the record sequence r (1-based): a primary
\* record, or a duplicate of an earlier primary record
NextRecords(r) ==
    {[marker |-> NON_DUP_MARKER,
      content |-> Account("acct", PROGRAM_ID, Zeros(n))] : n \in ParseLensAt(Len(r))}
    \cup {[marker |-> i - 1, content |-> PadAccount] :
            i \in {j \in DOMAIN r : r[j].marker = NON_DUP_MARKER}}

RECURSIVE ParseRecords(_)
\* conformant record sequences of n records
ParseRecords(n) ==
    IF n = 0 THEN {<< >>}
    ELSE UNION {{Append(r, rec) : rec \in NextRecords(r)} : r \in ParseRecords(n - 1)}

\* a 1-based record sequence as the 0-based record list of a buffer
ZeroBased(r) == [k \in 0..(Len(r) - 1) |-> r[k + 1]]

\* shapes of the long buffers: 0 has primary records only, p > 0 makes every
\* p-th record a duplicate of record 0
BatchPatterns == {0, 2, 3}

\* the n records of a long buffer of shape p, data lengths alternating 0 and 3
BatchRecords(n, p) ==
    [k \in 0..(n - 1) |->
        IF p > 0 /\ k % p = p - 1
        THEN [marker |-> 0, content |-> PadAccount]
        ELSE [marker |-> NON_DUP_MARKER,
              content |-> Account("acct", PROGRAM_ID, Zeros(3 * (k % 2)))]]

\* the MAX_ACCOUNTS values tried on the long buffers
BatchMaxAccountsChoices == 0..(MaxBatchRecords + 1) \cup {MAX_TX_ACCOUNTS}

\* the MAX_ACCOUNTS values a program may instantiate the entrypoint with
MaxAccountsChoices == 0..(MaxParseRecords + 1) \cup {MAX_TX_ACCOUNTS}

----------------------------------------------------------------------------
(* State machine                                                           *)

\* no allocator call has been made: nothing stored, nothing returned
NoHeap ==
    [start |-> 0, end |-> 0, pos |-> 0, prev |-> 0, ret |-> NULL,
     size |-> 0, align |-> 1, blocks |-> << >>]

\* no conversion has been made
NoConv == [op |-> "none", e |-> "none", value |-> 0, ok |-> FALSE, val |-> "none"]

\* no InstructionContext has been created
NoCtx == [buffer |-> 0, remaining |-> 0]

\* no call on an InstructionContext has been made
NoOut == [data |-> << >>, id |-> "none"]
NoLazy == [reads |-> << >>, out |-> NoOut, pre |-> NoCtx]

\* no Rent value has been loaded
NoRent ==
    [lamports_per_byte |-> << >>, exemption_threshold |-> << >>,
     data_len |-> 0, err |-> "none", val |-> << >>]

NoLast ==
    [op |-> "none", view |-> -1, ty |-> "none", pre |-> Unborrowed, preg |-> 0,
     err |-> "none", msg |-> "", req |-> NoRequest]

MkLast(op, view, ty, pre, preg, err, msg, req) ==
    [op |-> op, view |-> view, ty |-> ty, pre |-> pre, preg |-> preg,
     err |-> err, msg |-> msg, req |-> req]

\* process_entrypoint before deserialize is called
InitRest ==
    /\ pc = "entry"
    /\ borrow = [k \in DOMAIN mem |-> Unborrowed]
    /\ accounts = << >>
    /\ count = 0
    /\ entry = [program_id |-> "none", instruction_data |-> << >>, ub |-> FALSE]
    /\ guards = EmptyBag
    /\ inited = {}
    /\ written = [k \in DOMAIN mem |-> << >>]
    /\ heap = NoHeap
    /\ conv = NoConv
    /\ ctx = NoCtx
    /\ lazy = NoLazy
    /\ rent = NoRent
    /\ last = NoLast

\* entrypoint!(process_instruction): MAX_ACCOUNTS defaults to MAX_TX_ACCOUNTS
InitCommon ==
    /\ max_accounts = MAX_TX_ACCOUNTS
    /\ InitRest

Init ==
    /\ \E c \in CastTargets : buffer = CastBuffer(c) /\ mem = CastMem(c)
    /\ InitCommon

InitAlias ==
    /\ \E n \in 1..MaxRecords : \E r \in AliasRecords(n) :
          buffer = AliasBuffer(r) /\ mem = AliasMem(r)
    /\ InitCommon

\* program_entrypoint!(process_instruction, maximum) on any conformant buffer
InitParse ==
    /\ \E n \in 0..MaxParseRecords : \E r \in ParseRecords(n) :
          /\ buffer = AliasBuffer(ZeroBased(r))
          /\ mem = AliasMem(ZeroBased(r))
    /\ max_accounts \in MaxAccountsChoices
    /\ InitRest

\* the views handed to process_instruction: from_raw_parts(accounts, count)
Views == IF pc = "run" THEN 0..(count - 1) ELSE {}

\* the RuntimeAccount a view points to
Cell(v) == RecordAt(buffer, accounts[v].raw)

RECURSIVE SumCopies(_)
SumCopies(S) ==
    IF S = {} THEN 0
    ELSE LET g == CHOOSE x \in S : TRUE
         IN CopiesIn(g, guards) + SumCopies(S \ {g})

\* live guards of the given kinds taken through any alias of physical account a
GuardsOn(a, kinds) ==
    SumCopies({g \in BagToSet(guards) : Phys(buffer, g.view) = a /\ g.kind \in kinds})

Guard(v, kind, of) == [view |-> v, kind |-> kind, of |-> of]

AddGuard(kind, v, of) ==
    IF kind = "none" THEN guards ELSE guards (+) SetToBag({Guard(v, kind, of)})

\* the guard bound applies to operations that would create a guard
Room(kind) == kind = "none" \/ BagCardinality(guards) < MaxGuards

\* process_entrypoint: parse the input buffer into the accounts array
Deserialize ==
    /\ pc = "entry"
    /\ LET r == deserialize(buffer, mem, max_accounts)
       IN /\ accounts' = r.slots
          /\ count' = r.count
          /\ entry' = [program_id |-> r.program_id,
                       instruction_data |-> r.instruction_data, ub |-> r.ub]
    /\ pc' = "run"
    /\ last' = MkLast("deserialize", -1, "none", Unborrowed, 0, "Ok", "", NoRequest)
    /\ UNCHANGED <<ctx, lazy, rent, buffer, mem, borrow, max_accounts, guards, inited, written, heap, conv>>

\* account_view.try_borrow()
TryBorrowOn(S) ==
    \E v \in S :
      LET c == Cell(v)
          b == try_borrow(borrow[c])
          kind == IF b.ok THEN "Ref" ELSE "none"
      IN /\ Room(kind)
         /\ borrow' = [borrow EXCEPT ![c] = b.st]
         /\ guards' = AddGuard(kind, v, "bytes")
         /\ last' = MkLast("try_borrow", v, "bytes", borrow[c],
                           GuardsOn(Phys(buffer, v), {"Ref", "RefMut"}),
                           IF b.ok THEN "Ok" ELSE "AccountBorrowFailed", "", NoRequest)
         /\ UNCHANGED <<ctx, lazy, rent, pc, buffer, mem, max_accounts, accounts, count, entry, inited, written, heap, conv>>

\* account_view.try_borrow_mut()
TryBorrowMutOn(S) ==
    \E v \in S :
      LET c == Cell(v)
          b == try_borrow_mut(borrow[c])
          kind == IF b.ok THEN "RefMut" ELSE "none"
      IN /\ Room(kind)
         /\ borrow' = [borrow EXCEPT ![c] = b.st]
         /\ guards' = AddGuard(kind, v, "bytes")
         /\ last' = MkLast("try_borrow_mut", v, "bytes", borrow[c],
                           GuardsOn(Phys(buffer, v), {"Ref", "RefMut"}),
                           IF b.ok THEN "Ok" ELSE "AccountBorrowFailed", "", NoRequest)
         /\ UNCHANGED <<ctx, lazy, rent, pc, buffer, mem, max_accounts, accounts, count, entry, inited, written, heap, conv>>

TryBorrow == TryBorrowOn(Views)
TryBorrowMut == TryBorrowMutOn(Views)

\* the same two operations on the views of the account under test
TryBorrowTarget == TryBorrowOn(TargetViews(buffer, Views))
TryBorrowMutTarget == TryBorrowMutOn(TargetViews(buffer, Views))

\* a Ref / RefMut (raw or typed) goes out of scope
DropGuard ==
    \E g \in BagToSet(guards) :
      LET c == Cell(g.view)
      IN /\ borrow' = [borrow EXCEPT ![c] =
                          IF g.kind = "Ref" THEN drop_ref(@) ELSE drop_ref_mut(@)]
         /\ guards' = guards (-) SetToBag({g})
         /\ last' = MkLast("drop", g.view, g.of, borrow[c],
                           GuardsOn(Phys(buffer, g.view), {"Ref", "RefMut"}),
                           "Ok", "", NoRequest)
         /\ UNCHANGED <<ctx, lazy, rent, pc, buffer, mem, max_accounts, accounts, count, entry, inited, written, heap, conv>>

\* T::try_deserialize(account_view)
TryDeserialize ==
    \E v \in TargetViews(buffer, Views) : \E T \in Types :
      LET c == Cell(v)
          r == try_deserialize_zc(T, mem[c], borrow[c])
      IN /\ Room(r.guard)
         /\ borrow' = [borrow EXCEPT ![c] = r.st]
         /\ guards' = AddGuard(r.guard, v, T)
         /\ last' = MkLast("try_deserialize", v, T, borrow[c],
                           GuardsOn(Phys(buffer, v), {"Ref", "RefMut"}),
                           r.err, r.msg, NoRequest)
         /\ UNCHANGED <<ctx, lazy, rent, pc, buffer, mem, max_accounts, accounts, count, entry, inited, written, heap, conv>>

\* T::try_deserialize_mut(account_view)
TryDeserializeMut ==
    \E v \in TargetViews(buffer, Views) : \E T \in Types :
      LET c == Cell(v)
          r == try_deserialize_zc_mut(T, mem[c], borrow[c])
      IN /\ Room(r.guard)
         /\ borrow' = [borrow EXCEPT ![c] = r.st]
         /\ guards' = AddGuard(r.guard, v, T)
         /\ last' = MkLast("try_deserialize_mut", v, T, borrow[c],
                           GuardsOn(Phys(buffer, v), {"Ref", "RefMut"}),
                           r.err, r.msg, NoRequest)
         /\ UNCHANGED <<ctx, lazy, rent, pc, buffer, mem, max_accounts, accounts, count, entry, inited, written, heap, conv>>

\* T::try_initialize(target_account, init_accounts, signers)
TryInitialize ==
    \E v \in TargetViews(buffer, Views) : \E T \in Types :
    \E o \in {PROGRAM_ID, OTHER_ID} :
    \E payer \in PayerViews(buffer, Views) : \E sys \in SystemViews(buffer, Views) :
      LET c == Cell(v)
          init == [owner_program_id |-> o,
                   payer_account |-> mem[Cell(payer)].address,
                   system_program |-> mem[Cell(sys)].address]
          r == try_initialize_zc(T, mem[c], borrow[c], init)
      IN /\ Room(r.guard)
         /\ borrow' = [borrow EXCEPT ![c] = r.st]
         /\ mem' = [mem EXCEPT ![c] = r.acct]
         /\ guards' = AddGuard(r.guard, v, T)
         /\ last' = MkLast("try_initialize", v, T, borrow[c],
                           GuardsOn(Phys(buffer, v), {"Ref", "RefMut"}),
                           r.err, r.msg, r.req)
         /\ inited' = IF r.err = "Ok" THEN inited \cup {Phys(buffer, v)} ELSE inited
         /\ written' = IF r.err = "Ok"
                        THEN [written EXCEPT ![c] = Zeros(SizeOf(T))]
                        ELSE written
         /\ UNCHANGED <<ctx, lazy, rent, pc, buffer, max_accounts, accounts, count, entry, heap, conv>>

\* values a program stores through a RefMut<T>: counter.count += amount
PayloadValues == {Zeros(8), Fill(8, 255), <<1, 2, 3, 4, 5, 6, 7, 8>>}

\* *handle = value, through a live RefMut<T>: bytes [8..DISCRIMINATED_LEN)
WritePayload ==
    \E g \in BagToSet(guards) : \E val \in PayloadValues :
      LET c == Cell(g.view)
      IN /\ g.kind = "RefMut"
         /\ g.of \in Types
         /\ Len(val) = SizeOf(g.of)
         /\ mem' = [mem EXCEPT ![c].data =
                       Slice(@, 0, DISC_LEN) \o val
                         \o Slice(@, DISCRIMINATED_LEN(g.of), Len(@))]
         /\ written' = [written EXCEPT ![c] = val]
         /\ last' = MkLast("write", g.view, g.of, borrow[c],
                           GuardsOn(Phys(buffer, g.view), {"Ref", "RefMut"}),
                           "Ok", "", NoRequest)
         /\ UNCHANGED <<ctx, lazy, rent, pc, buffer, borrow, max_accounts, accounts, count, entry,
                        guards, inited, heap, conv>>

Next ==
    \/ Deserialize
    \/ TryBorrowTarget
    \/ TryBorrowMutTarget
    \/ DropGuard
    \/ TryDeserialize
    \/ TryDeserializeMut
    \/ TryInitialize
    \/ WritePayload

Spec == Init /\ [][Next]_vars

NextAlias ==
    \/ Deserialize
    \/ TryBorrow
    \/ TryBorrowMut
    \/ DropGuard

SpecAlias == InitAlias /\ [][NextAlias]_vars

\* T::try_deserialize_raw(account_view)
TryDeserializeRaw ==
    \E v \in TargetViews(buffer, Views) : \E T \in Types :
      LET c == Cell(v)
          r == try_deserialize_raw(T, mem[c], borrow[c])
      IN /\ Room(r.guard)
         /\ borrow' = [borrow EXCEPT ![c] = r.st]
         /\ guards' = AddGuard(r.guard, v, T)
         /\ last' = MkLast("try_deserialize_raw", v, T, borrow[c],
                           GuardsOn(Phys(buffer, v), {"Ref", "RefMut"}),
                           r.err, r.msg, NoRequest)
         /\ UNCHANGED <<ctx, lazy, rent, pc, buffer, mem, max_accounts, accounts, count, entry,
                        inited, written, heap, conv>>

\* T::try_deserialize_raw_mut(account_view)
TryDeserializeRawMut ==
    \E v \in TargetViews(buffer, Views) : \E T \in Types :
      LET c == Cell(v)
          r == try_deserialize_raw_mut(T, mem[c], borrow[c])
      IN /\ Room(r.guard)
         /\ borrow' = [borrow EXCEPT ![c] = r.st]
         /\ guards' = AddGuard(r.guard, v, T)
         /\ last' = MkLast("try_deserialize_raw_mut", v, T, borrow[c],
                           GuardsOn(Phys(buffer, v), {"Ref", "RefMut"}),
                           r.err, r.msg, NoRequest)
         /\ UNCHANGED <<ctx, lazy, rent, pc, buffer, mem, max_accounts, accounts, count, entry,
                        inited, written, heap, conv>>

\* the raw casts on the cast buffer, next to the raw borrows
NextRaw ==
    \/ Deserialize
    \/ TryBorrowTarget
    \/ TryBorrowMutTarget
    \/ DropGuard
    \/ TryDeserializeRaw
    \/ TryDeserializeRawMut

SpecRaw == Init /\ [][NextRaw]_vars

\* T::try_deserialize_raw_unchecked(account_view), called while no exclusive
\* guard on the account is alive
TryDeserializeRawUnchecked ==
    \E v \in TargetViews(buffer, Views) : \E T \in Types :
      LET c == Cell(v)
          r == try_deserialize_raw_unchecked(T, mem[c], borrow[c])
      IN /\ GuardsOn(Phys(buffer, v), {"RefMut"}) = 0
         /\ borrow' = [borrow EXCEPT ![c] = r.st]
         /\ guards' = AddGuard(r.guard, v, T)
         /\ last' = MkLast("try_deserialize_raw_unchecked", v, T, borrow[c],
                           GuardsOn(Phys(buffer, v), {"Ref", "RefMut"}),
                           r.err, r.msg, NoRequest)
         /\ UNCHANGED <<pc, buffer, mem, max_accounts, accounts, count, entry,
                        inited, written, heap, conv, ctx, lazy, rent>>

\* T::try_deserialize_raw_unchecked_mut(account_view), called while no guard
\* on the account is alive
TryDeserializeRawUncheckedMut ==
    \E v \in TargetViews(buffer, Views) : \E T \in Types :
      LET c == Cell(v)
          r == try_deserialize_raw_unchecked_mut(T, mem[c], borrow[c])
      IN /\ GuardsOn(Phys(buffer, v), {"Ref", "RefMut"}) = 0
         /\ borrow' = [borrow EXCEPT ![c] = r.st]
         /\ guards' = AddGuard(r.guard, v, T)
         /\ last' = MkLast("try_deserialize_raw_unchecked_mut", v, T, borrow[c],
                           GuardsOn(Phys(buffer, v), {"Ref", "RefMut"}),
                           r.err, r.msg, NoRequest)
         /\ UNCHANGED <<pc, buffer, mem, max_accounts, accounts, count, entry,
                        inited, written, heap, conv, ctx, lazy, rent>>

\* the unchecked raw casts on the cast buffer, next to the raw borrows
NextUnchecked ==
    \/ Deserialize
    \/ TryBorrowTarget
    \/ TryBorrowMutTarget
    \/ DropGuard
    \/ TryDeserializeRawUnchecked
    \/ TryDeserializeRawUncheckedMut

SpecUnchecked == Init /\ [][NextUnchecked]_vars

InitToken ==
    /\ \E c \in CastTargets \cup TokenTargets :
          buffer = CastBuffer(c) /\ mem = CastMem(c)
    /\ InitCommon

\* TokenAccount::try_deserialize_raw(account_view)
TokenAccountTryDeserializeRaw ==
    \E v \in TargetViews(buffer, Views) :
      LET c == Cell(v)
          r == TokenAccount_try_deserialize_raw(mem[c], borrow[c])
      IN /\ Room(r.guard)
         /\ borrow' = [borrow EXCEPT ![c] = r.st]
         /\ guards' = AddGuard(r.guard, v, "TokenAccount")
         /\ last' = MkLast("TokenAccount::try_deserialize_raw", v, "TokenAccount",
                           borrow[c],
                           GuardsOn(Phys(buffer, v), {"Ref", "RefMut"}),
                           r.err, r.msg, NoRequest)
         /\ UNCHANGED <<pc, buffer, mem, max_accounts, accounts, count, entry,
                        inited, written, heap, conv, ctx, lazy, rent>>

\* Mint::try_deserialize_raw(account_view)
MintTryDeserializeRaw ==
    \E v \in TargetViews(buffer, Views) :
      LET c == Cell(v)
          r == Mint_try_deserialize_raw(mem[c], borrow[c])
      IN /\ Room(r.guard)
         /\ borrow' = [borrow EXCEPT ![c] = r.st]
         /\ guards' = AddGuard(r.guard, v, "Mint")
         /\ last' = MkLast("Mint::try_deserialize_raw", v, "Mint", borrow[c],
                           GuardsOn(Phys(buffer, v), {"Ref", "RefMut"}),
                           r.err, r.msg, NoRequest)
         /\ UNCHANGED <<pc, buffer, mem, max_accounts, accounts, count, entry,
                        inited, written, heap, conv, ctx, lazy, rent>>

\* every implementation of try_deserialize_raw, next to the raw borrows
NextToken ==
    \/ Deserialize
    \/ TryBorrowTarget
    \/ TryBorrowMutTarget
    \/ DropGuard
    \/ TryDeserializeRaw
    \/ TokenAccountTryDeserializeRaw
    \/ MintTryDeserializeRaw

SpecToken == InitToken /\ [][NextToken]_vars

\* the typed and the raw casts together, next to the raw borrows
NextCasts ==
    \/ Deserialize
    \/ TryBorrowTarget
    \/ TryBorrowMutTarget
    \/ DropGuard
    \/ TryDeserialize
    \/ TryDeserializeMut
    \/ TryDeserializeRaw
    \/ TryDeserializeRawMut

SpecCasts == Init /\ [][NextCasts]_vars

\* regions an allocator is created over: start aligned to usize, len at least
\* size_of::<usize>()
HeapStarts == {64, 72}
HeapLens == {SIZE_OF_USIZE, 24, 40}

\* Layout values requested: non-zero size, power-of-two alignment
LayoutSizes == {1, 3, 8, 16, 32, MAX_HEAP_LENGTH + 1}
LayoutAligns == {1, 2, 8, 16}

\* static A: BumpAllocator = BumpAllocator::new_unchecked(start, len), in a
\* program that has not been handed any account
InitHeap ==
    /\ buffer = AliasBuffer(ZeroBased(<< >>))
    /\ mem = AliasMem(ZeroBased(<< >>))
    /\ max_accounts = MAX_TX_ACCOUNTS
    /\ pc = "entry"
    /\ borrow = [k \in DOMAIN mem |-> Unborrowed]
    /\ accounts = << >>
    /\ count = 0
    /\ entry = [program_id |-> "none", instruction_data |-> << >>, ub |-> FALSE]
    /\ guards = EmptyBag
    /\ inited = {}
    /\ written = [k \in DOMAIN mem |-> << >>]
    /\ conv = NoConv
    /\ ctx = NoCtx
    /\ lazy = NoLazy
    /\ rent = NoRent
    /\ last = NoLast
    /\ \E start \in HeapStarts : \E len \in HeapLens :
          heap = [NoHeap EXCEPT !.start = start, !.end = start + len]

\* A.alloc(Layout::from_size_align(size, align))
Alloc ==
    \E size \in LayoutSizes : \E align \in LayoutAligns :
      LET r == alloc(heap, size, align)
      IN /\ r.ret # NULL => Len(heap.blocks) < MaxAllocs
         /\ heap' = [heap EXCEPT !.pos = r.pos, !.prev = heap.pos, !.ret = r.ret,
                                  !.size = size, !.align = align,
                                  !.blocks = IF r.ret = NULL THEN @
                                             ELSE Append(@, [addr |-> r.ret, size |-> size])]
         /\ last' = MkLast("alloc", -1, "none", Unborrowed, 0,
                           IF r.ret = NULL THEN "null" ELSE "Ok", "", NoRequest)
         /\ UNCHANGED <<ctx, lazy, rent, pc, buffer, mem, borrow, max_accounts, accounts, count, entry,
                        guards, inited, written, conv>>

\* A.dealloc(ptr, layout) of a block handed out earlier
Dealloc ==
    \E i \in DOMAIN heap.blocks : \E align \in LayoutAligns :
      LET b == heap.blocks[i]
      IN /\ heap' = [heap EXCEPT !.pos = dealloc(heap, b.addr, b.size, align),
                                  !.prev = heap.pos, !.ret = NULL,
                                  !.size = b.size, !.align = align]
         /\ last' = MkLast("dealloc", -1, "none", Unborrowed, 0, "Ok", "", NoRequest)
         /\ UNCHANGED <<ctx, lazy, rent, pc, buffer, mem, borrow, max_accounts, accounts, count, entry,
                        guards, inited, written, conv>>

NextHeap ==
    \/ Alloc
    \/ Dealloc

SpecHeap == InitHeap /\ [][NextHeap]_vars

\* a program that only converts error codes
InitErr ==
    /\ buffer = AliasBuffer(ZeroBased(<< >>))
    /\ mem = AliasMem(ZeroBased(<< >>))
    /\ InitCommon

\* ProgramError::from(e) for a variant e, then ErrorCode::try_from of its code
ConvertVariant ==
    \E e \in ErrorCodes :
      LET pe == ProgramError_from(e)
          back == ErrorCode_try_from(pe.code)
      IN /\ conv' = [op |-> "from", e |-> e, value |-> pe.code,
                      ok |-> back.ok, val |-> back.val]
         /\ UNCHANGED <<ctx, lazy, rent, pc, buffer, mem, borrow, max_accounts, accounts, count, entry,
                        guards, inited, written, heap, last>>

\* ErrorCode::try_from(value) for a u32 value
TryFromU32 ==
    \E value \in 0..MaxCode :
      LET r == ErrorCode_try_from(value)
      IN /\ conv' = [op |-> "try_from", e |-> "none", value |-> value,
                      ok |-> r.ok, val |-> r.val]
         /\ UNCHANGED <<ctx, lazy, rent, pc, buffer, mem, borrow, max_accounts, accounts, count, entry,
                        guards, inited, written, heap, last>>

NextErr ==
    \/ ConvertVariant
    \/ TryFromU32

SpecErr == InitErr /\ [][NextErr]_vars

NextParse ==
    \/ Deserialize

SpecParse == InitParse /\ [][NextParse]_vars

\* lazy entrypoint: process_instruction(InstructionContext::new_unchecked(input))
\* on any conformant buffer
InitLazy ==
    /\ \E n \in 0..MaxRecords : \E r \in ParseRecords(n) :
          /\ buffer = AliasBuffer(ZeroBased(r))
          /\ mem = AliasMem(ZeroBased(r))
    /\ max_accounts = MAX_TX_ACCOUNTS
    /\ pc = "entry"
    /\ borrow = [k \in DOMAIN mem |-> Unborrowed]
    /\ accounts = << >>
    /\ count = 0
    /\ entry = [program_id |-> "none", instruction_data |-> << >>, ub |-> FALSE]
    /\ guards = EmptyBag
    /\ inited = {}
    /\ written = [k \in DOMAIN mem |-> << >>]
    /\ heap = NoHeap
    /\ conv = NoConv
    /\ ctx = InstructionContext_new_unchecked(buffer)
    /\ lazy = [NoLazy EXCEPT !.pre = ctx]
    /\ rent = NoRent
    /\ last = NoLast

\* one entry of the read history: what was returned and the cursor around it
Read(ret, from, to, checked) ==
    [ret |-> ret, from |-> from, to |-> to, checked |-> checked]

\* context.next_account()
NextAccount ==
    LET r == next_account(buffer, mem, ctx)
    IN /\ ctx' = r.ic
       /\ lazy' = [reads |-> IF r.err = "Ok"
                             THEN Append(lazy.reads,
                                         Read(r.ret, ctx.buffer, r.ic.buffer, TRUE))
                             ELSE lazy.reads,
                   out |-> NoOut,
                   pre |-> ctx]
       /\ last' = MkLast("next_account", -1, "none", Unborrowed, 0, r.err, "", NoRequest)
       /\ UNCHANGED <<pc, buffer, mem, borrow, max_accounts, accounts, count, entry,
                      guards, inited, written, heap, conv, rent>>

\* context.next_account_unchecked(), called while unread records remain
NextAccountUnchecked ==
    /\ ctx.buffer < RecordOffset(buffer, NumRecs(buffer))
    /\ LET r == next_account_unchecked(buffer, mem, ctx)
       IN /\ ctx' = r.ic
          /\ lazy' = [reads |-> Append(lazy.reads,
                                       Read(r.ret, ctx.buffer, r.ic.buffer, FALSE)),
                      out |-> NoOut,
                      pre |-> ctx]
          /\ last' = MkLast("next_account_unchecked", -1, "none", Unborrowed, 0,
                            r.err, "", NoRequest)
    /\ UNCHANGED <<pc, buffer, mem, borrow, max_accounts, accounts, count, entry,
                   guards, inited, written, heap, conv, rent>>

\* context.instruction_data()
InstructionData ==
    LET r == instruction_data(buffer, ctx)
    IN /\ lazy' = [lazy EXCEPT !.out = [NoOut EXCEPT !.data = r.val], !.pre = ctx]
       /\ last' = MkLast("instruction_data", -1, "none", Unborrowed, 0,
                         r.err, "", NoRequest)
       /\ UNCHANGED <<pc, buffer, mem, borrow, max_accounts, accounts, count, entry,
                      guards, inited, written, heap, conv, ctx, rent>>

\* context.program_id()
ProgramId ==
    LET r == program_id(buffer, ctx)
    IN /\ lazy' = [lazy EXCEPT !.out = [NoOut EXCEPT !.id = r.val], !.pre = ctx]
       /\ last' = MkLast("program_id", -1, "none", Unborrowed, 0,
                         r.err, "", NoRequest)
       /\ UNCHANGED <<pc, buffer, mem, borrow, max_accounts, accounts, count, entry,
                      guards, inited, written, heap, conv, ctx, rent>>

NextLazy ==
    \/ NextAccount
    \/ NextAccountUnchecked
    \/ InstructionData
    \/ ProgramId

SpecLazy == InitLazy /\ [][NextLazy]_vars

\* values of the Rent sysvar: the default rate, the two limits, the values next
\* to them and u64::MAX; thresholds 1.0, 2.0 and 0.5
LamportsPerByteChoices ==
    {U64(DEFAULT_LAMPORTS_PER_BYTE),
     CURRENT_MAX_LAMPORTS_PER_BYTE,
     Low(WideAdd(CURRENT_MAX_LAMPORTS_PER_BYTE, U64(1))),
     SIMD0194_MAX_LAMPORTS_PER_BYTE,
     Low(WideAdd(SIMD0194_MAX_LAMPORTS_PER_BYTE, U64(1))),
     Fill(SIZE_OF_U64, 255)}
ThresholdChoices ==
    {SIMD0194_EXEMPTION_THRESHOLD, CURRENT_EXEMPTION_THRESHOLD,
     <<0, 0, 0, 0, 0, 0, 224, 63>>}

\* data lengths asked for: small ones and those around the permitted maximum
DataLenChoices ==
    {0, 100, MAX_PERMITTED_DATA_LENGTH - 1, MAX_PERMITTED_DATA_LENGTH,
     MAX_PERMITTED_DATA_LENGTH + 1}

\* a program that has loaded the Rent sysvar and been handed no account
InitRent ==
    /\ buffer = AliasBuffer(ZeroBased(<< >>))
    /\ mem = AliasMem(ZeroBased(<< >>))
    /\ max_accounts = MAX_TX_ACCOUNTS
    /\ pc = "entry"
    /\ borrow = [k \in DOMAIN mem |-> Unborrowed]
    /\ accounts = << >>
    /\ count = 0
    /\ entry = [program_id |-> "none", instruction_data |-> << >>, ub |-> FALSE]
    /\ guards = EmptyBag
    /\ inited = {}
    /\ written = [k \in DOMAIN mem |-> << >>]
    /\ heap = NoHeap
    /\ conv = NoConv
    /\ ctx = NoCtx
    /\ lazy = NoLazy
    /\ last = NoLast
    /\ \E l \in LamportsPerByteChoices : \E t \in ThresholdChoices :
          rent = [NoRent EXCEPT !.lamports_per_byte = l, !.exemption_threshold = t]

\* what a build can make of an Ok return: an overflowing operation panics with
\* overflow checks and wraps without them; the floating-point branch panics on
\* BPF
BuildOutcomes(r) ==
    IF r.err # "Ok" THEN {r.err}
    ELSE IF r.r.kind = "float" THEN {"panic", "float"}
    ELSE IF r.r.overflow THEN {"panic", "Ok"}
    ELSE {"Ok"}

\* rent.try_minimum_balance(data_len)
TryMinimumBalance ==
    \E data_len \in DataLenChoices :
      LET self == Rent(rent.lamports_per_byte, rent.exemption_threshold)
          r == try_minimum_balance(self, data_len)
      IN \E outcome \in BuildOutcomes(r) :
           /\ rent' = [rent EXCEPT !.data_len = data_len, !.err = outcome,
                                   !.val = IF outcome = "Ok" THEN r.r.val ELSE << >>]
           /\ UNCHANGED <<pc, buffer, mem, borrow, max_accounts, accounts, count, entry,
                          guards, inited, written, heap, conv, ctx, lazy, last>>

NextRent ==
    \/ TryMinimumBalance

SpecRent == InitRent /\ [][NextRent]_vars

\* program_entrypoint!(process_instruction, maximum) on a long buffer
InitBatch ==
    /\ \E n \in 1..MaxBatchRecords : \E p \in BatchPatterns :
          /\ buffer = AliasBuffer(BatchRecords(n, p))
          /\ mem = AliasMem(BatchRecords(n, p))
    /\ max_accounts \in BatchMaxAccountsChoices
    /\ InitRest

NextBatch ==
    \/ Deserialize

SpecBatch == InitBatch /\ [][NextBatch]_vars

----------------------------------------------------------------------------
(* Properties                                                              *)

\* spec names of the error values
BorrowConflict == "AccountBorrowFailed"

BorrowOps == {"try_borrow", "try_borrow_mut"}
CastOps == {"try_deserialize", "try_deserialize_mut"}

\* primary records: the physical accounts of the buffer
Primaries == {a \in DOMAIN mem : buffer.recs[a].marker = NON_DUP_MARKER}

\* views that alias physical account a
Aliases(a) == {v \in Views : Phys(buffer, v) = a}

AllKinds == {"Ref", "RefMut"}

\* C1: the Borrow State of an account is never Exclusive, and no exclusive
\* guard is alive, while a shared guard or a second exclusive guard taken
\* through any alias of that account is alive.
C1_ExclusiveIsAlone ==
    \A a \in Primaries :
        (borrow[a] = Exclusive \/ GuardsOn(a, {"RefMut"}) > 0)
            => /\ GuardsOn(a, {"Ref"}) = 0
               /\ GuardsOn(a, {"RefMut"}) <= 1

\* C1 witness: an account with two aliases is Exclusive and a borrow through
\* the other alias has just been refused.
C1_Witness ==
    /\ last.op \in BorrowOps
    /\ last.err = BorrowConflict
    /\ borrow[Phys(buffer, last.view)] = Exclusive
    /\ \E g \in BagToSet(guards) :
          /\ g.kind = "RefMut"
          /\ g.view # last.view
          /\ Phys(buffer, g.view) = Phys(buffer, last.view)

\* C2: a view parsed from a duplicate marker shares the Borrow State cell of
\* the record it names: a borrow of either kind through one alias is refused
\* with BorrowConflict while an exclusive guard taken through the other alias
\* is alive, and succeeds when no guard on the account was alive.
C2_DuplicateSharesCell ==
    /\ \A j \in Views : accounts[j] = accounts[Phys(buffer, j)]
    /\ (last.op \in BorrowOps /\ Cardinality(Aliases(Phys(buffer, last.view))) > 1)
          => /\ (\E g \in BagToSet(guards) :
                     /\ g.kind = "RefMut"
                     /\ Phys(buffer, g.view) = Phys(buffer, last.view)
                     /\ ~(last.op = "try_borrow_mut" /\ last.err = "Ok"
                          /\ g.view = last.view))
                  => last.err = BorrowConflict
             /\ last.preg = 0 => last.err = "Ok"

\* C2 witness: record j duplicates record i, an exclusive guard taken through
\* view i is alive and a borrow through view j has just been refused.
C2_Witness ==
    /\ last.op \in BorrowOps
    /\ last.err = BorrowConflict
    /\ buffer.recs[last.view].marker # NON_DUP_MARKER
    /\ \E g \in BagToSet(guards) :
          g.kind = "RefMut" /\ g.view = buffer.recs[last.view].marker

\* the account and the type the last cast or borrow was applied to
LastAcct == mem[Cell(last.view)]
LastPhys == Phys(buffer, last.view)
OwnerOk == LastAcct.owner = OWNER(last.ty)
LenOk == Len(LastAcct.data) = DISCRIMINATED_LEN(last.ty)
DiscOk ==
    /\ Len(LastAcct.data) >= DISC_LEN
    /\ Slice(LastAcct.data, 0, DISC_LEN) = DISCRIMINATOR(last.ty)

\* C3: try_borrow_mut succeeds exactly from Unborrowed and is otherwise
\* refused with BorrowConflict; try_borrow is refused with BorrowConflict
\* exactly from Exclusive and succeeds from Unborrowed and from Shared(n); the
\* borrows taken inside try_deserialize (shared) and try_deserialize_mut
\* (exclusive) of a correctly owned account are refused in the same states.
C3_BorrowOutcome ==
    /\ last.op = "try_borrow_mut"
          => IF last.pre = Unborrowed
             THEN last.err = "Ok" /\ borrow[LastPhys] = Exclusive
             ELSE last.err = BorrowConflict /\ borrow[LastPhys] = last.pre
    /\ last.op = "try_borrow"
          => IF last.pre = Exclusive
             THEN last.err = BorrowConflict /\ borrow[LastPhys] = last.pre
             ELSE last.err = "Ok" /\ borrow[LastPhys] = Shared(last.pre.n + 1)
    /\ (last.op = "try_deserialize" /\ OwnerOk)
          => (last.err = BorrowConflict <=> last.pre = Exclusive)
    /\ (last.op = "try_deserialize_mut" /\ OwnerOk)
          => (last.err = BorrowConflict <=> last.pre # Unborrowed)

\* C3 witness: try_borrow_mut has just been refused on an account that holds
\* shared borrows only.
C3_Witness ==
    /\ last.op = "try_borrow_mut"
    /\ last.pre.tag = "Shared"
    /\ last.err = BorrowConflict

\* the Borrow State that the live guards of account a add up to
StateOfGuards(a) ==
    IF GuardsOn(a, {"RefMut"}) > 0 THEN Exclusive
    ELSE IF GuardsOn(a, {"Ref"}) > 0 THEN Shared(GuardsOn(a, {"Ref"}))
    ELSE Unborrowed

\* C4: the Borrow State of every account is exactly what its live guards add
\* up to (Shared count = number of live shared guards, Unborrowed when no
\* guard is alive), and a borrow attempted when no guard on any alias was
\* alive succeeds.
C4_DropReverses ==
    /\ \A a \in Primaries : borrow[a] = StateOfGuards(a)
    /\ (last.op \in BorrowOps /\ last.preg = 0) => last.err = "Ok"

\* C4 witness: the last guard of an account, taken through one of two aliases,
\* has just been dropped and the account is Unborrowed again.
C4_Witness ==
    /\ last.op = "drop"
    /\ last.pre # Unborrowed
    /\ Cardinality(Aliases(LastPhys)) > 1
    /\ GuardsOn(LastPhys, AllKinds) = 0
    /\ borrow[LastPhys] = Unborrowed

\* the borrow a cast takes after its owner check was grantable before the call
BorrowGranted ==
    IF last.op = "try_deserialize" THEN last.pre # Exclusive
    ELSE last.pre = Unborrowed

LengthMsgs ==
    {"try_deserialize_zc: wrong data length", "try_deserialize_zc_mut: wrong data length"}
DiscriminatorMsgs ==
    {"try_deserialize_zc: invalid discriminator",
     "try_deserialize_zc_mut: invalid discriminator"}

LengthError(op) ==
    LET a == Account("probe", PROGRAM_ID, << >>)
    IN IF op = "try_deserialize"
       THEN try_deserialize_zc("CounterAccount", a, Unborrowed).err
       ELSE try_deserialize_zc_mut("CounterAccount", a, Unborrowed).err
OwnerError(op) ==
    LET a == Account("probe", OTHER_ID, << >>)
    IN IF op = "try_deserialize"
       THEN try_deserialize_zc("CounterAccount", a, Unborrowed).err
       ELSE try_deserialize_zc_mut("CounterAccount", a, Unborrowed).err

\* C6: on an unborrowed, correctly owned account of the right length whose
\* first 8 bytes differ from T::DISCRIMINATOR, both casts fail, and the error
\* value they return differs from the one returned for a wrong length and
\* from the one returned for a wrong owner.
C6_DiscriminatorErrorDistinct ==
    (last.op \in CastOps /\ last.pre = Unborrowed /\ OwnerOk /\ LenOk /\ ~DiscOk)
        => /\ last.err # "Ok"
           /\ last.err # OwnerError(last.op)
           /\ last.err # LengthError(last.op)

TypedHandleOn(a, kind) ==
    \E g \in BagToSet(guards) :
        g.of \in Types /\ g.kind = kind /\ Phys(buffer, g.view) = a

\* C8: in every step that applies a borrow or a cast to an alias of an
\* account: if a typed Ref was alive, try_borrow_mut and try_deserialize_mut
\* fail with BorrowConflict while try_borrow and a try_deserialize of the same
\* type succeed; if a typed RefMut was alive, all four fail (with
\* BorrowConflict once the owner check is passed); if no guard was alive, none
\* of them fails with BorrowConflict.
C8_HandleKeepsBorrow ==
    [][ (last'.op \in (BorrowOps \cup CastOps)) =>
          LET a == Phys(buffer, last'.view)
              owner_ok == last'.op \in BorrowOps
                            \/ mem[Cell(last'.view)].owner = OWNER(last'.ty)
          IN /\ TypedHandleOn(a, "Ref") =>
                   /\ last'.op = "try_borrow_mut" => last'.err = BorrowConflict
                   /\ last'.op = "try_deserialize_mut" => last'.err = BorrowConflict
                   /\ last'.op = "try_borrow" => last'.err = "Ok"
                   /\ (last'.op = "try_deserialize"
                        /\ \E g \in BagToSet(guards) :
                              g.of = last'.ty /\ g.kind = "Ref"
                              /\ Phys(buffer, g.view) = a)
                         => last'.err = "Ok"
             /\ TypedHandleOn(a, "RefMut") =>
                   /\ last'.err # "Ok"
                   /\ owner_ok => last'.err = BorrowConflict
             /\ GuardsOn(a, AllKinds) = 0 =>
                   /\ last'.err # BorrowConflict
                   /\ last'.op \in BorrowOps => last'.err = "Ok"
      ]_vars

\* C8 witness: try_deserialize_mut has just been refused with BorrowConflict
\* through one alias while a typed Ref taken through the other alias is alive.
C8_Witness ==
    /\ last.op = "try_deserialize_mut"
    /\ last.err = BorrowConflict
    /\ \E g \in BagToSet(guards) :
          /\ g.of \in Types /\ g.kind = "Ref"
          /\ g.view # last.view
          /\ Phys(buffer, g.view) = LastPhys

\* C9: once try_initialize has succeeded on an account, every later
\* try_initialize on it (through any alias, for any type) fails, with the
\* create-account rejection whenever the call gets as far as the collaborator,
\* and leaves the account's owner, discriminator and payload as they were.
C9_InitializeOnce ==
    [][ (last'.op = "try_initialize" /\ Phys(buffer, last'.view) \in inited) =>
          /\ last'.err \in {"AccountAlreadyInUse", "IncorrectProgramId"}
          /\ last'.req # NoRequest => last'.err = "AccountAlreadyInUse"
          /\ mem' = mem
          /\ inited' = inited
          /\ guards' = guards
          /\ borrow' = borrow
      ]_vars

\* C9 witness: try_initialize for another type has just been rejected by the
\* create-account collaborator on an account initialized earlier.
C9_Witness ==
    /\ last.op = "try_initialize"
    /\ LastPhys \in inited
    /\ last.err = "AccountAlreadyInUse"
    /\ Slice(LastAcct.data, 0, DISC_LEN) # DISCRIMINATOR(last.ty)
    /\ Slice(LastAcct.data, 0, DISC_LEN) \in {DISCRIMINATOR(T) : T \in Types}

\* C10: every create-account request try_initialize::<T> makes asks for
\* DISCRIMINATED_LEN = 8 + size_of::<T>() bytes and for ownership by T::OWNER.
C10_RequestsTypeOwner ==
    (last.op = "try_initialize" /\ last.req # NoRequest)
        => /\ last.req.space = DISCRIMINATED_LEN(last.ty)
           /\ last.req.owner = OWNER(last.ty)

\* C11: right after try_initialize::<T> returned Ok, bytes [0..8] of the
\* target are T::DISCRIMINATOR, its data length is DISCRIMINATED_LEN, every
\* byte of [8..] is zero, its Borrow State is Exclusive and the one live guard
\* on it is the RefMut<T> returned through the view that was passed.
C11_InitializedState ==
    (last.op = "try_initialize" /\ last.err = "Ok") =>
        /\ Len(LastAcct.data) = DISCRIMINATED_LEN(last.ty)
        /\ Slice(LastAcct.data, 0, DISC_LEN) = DISCRIMINATOR(last.ty)
        /\ TypedPayload(last.ty, LastAcct.data) = Zeros(SizeOf(last.ty))
        /\ borrow[LastPhys] = Exclusive
        /\ GuardsOn(LastPhys, AllKinds) = 1
        /\ Guard(last.view, "RefMut", last.ty) \in BagToSet(guards)

\* C11 witness: try_initialize::<Test> has just returned Ok through the
\* duplicate view of the target.
C11_Witness ==
    /\ last.op = "try_initialize"
    /\ last.err = "Ok"
    /\ last.ty = "Test"
    /\ buffer.recs[last.view].marker # NON_DUP_MARKER
    /\ DiscOk

\* C12: a try_deserialize::<T> of an account that try_initialize::<T> created,
\* made while no exclusive guard is alive, succeeds and exposes exactly the
\* payload last stored through a handle (all zero if nothing was stored).
C12_RoundTrip ==
    (/\ last.op = "try_deserialize"
     /\ LastPhys \in inited
     /\ DiscOk
     /\ last.pre # Exclusive)
        => /\ last.err = "Ok"
           /\ TypedPayload(last.ty, LastAcct.data) = written[LastPhys]

\* C13: once deserialize::<MAX_ACCOUNTS> has returned, the reported count is
\* min(account_count, MAX_ACCOUNTS), every reported slot has been written, no
\* slot at or beyond index MAX_ACCOUNTS has been written, and no undefined
\* behaviour was executed on the way.
C13_CapRespected ==
    pc = "run" =>
        /\ ~entry.ub
        /\ count = Min(NumRecs(buffer), max_accounts)
        /\ \A j \in 0..(count - 1) : j \in DOMAIN accounts
        /\ \A j \in DOMAIN accounts : j < max_accounts

\* what deserialize returns next to the views
Returned(r) == [instruction_data |-> r.instruction_data, program_id |-> r.program_id]

\* C14: for every MAX_ACCOUNTS, deserialize returns the buffer's instruction
\* bytes and trailing program id without executing undefined behaviour, so
\* what it returned in this run is what it returns for any other MAX_ACCOUNTS.
C14_TailIndependentOfCap ==
    pc = "run" =>
        /\ ~entry.ub
        /\ entry.instruction_data = buffer.ix
        /\ entry.program_id = buffer.program_id
        /\ \A M \in MaxAccountsChoices :
              LET r == deserialize(buffer, mem, M)
              IN ~r.ub /\ Returned(r) = Returned(entry)

\* slots holding the view of their own primary record
PrimaryViews ==
    {j \in DOMAIN accounts \cap DOMAIN buffer.recs :
        /\ buffer.recs[j].marker = NON_DUP_MARKER
        /\ accounts[j] = new_unchecked(RecordOffset(buffer, j))}

\* slots of duplicate records holding the view of the record their marker names
ResolvedDuplicates ==
    {j \in DOMAIN accounts \cap DOMAIN buffer.recs :
        /\ buffer.recs[j].marker # NON_DUP_MARKER
        /\ accounts[j] = new_unchecked(RecordOffset(buffer, buffer.recs[j].marker))}

RawOps == {"try_deserialize_raw", "try_deserialize_raw_mut"}

\* the borrow a raw cast takes last was grantable before the call
RawBorrowGranted ==
    IF last.op = "try_deserialize_raw" THEN last.pre # Exclusive
    ELSE last.pre = Unborrowed

RawLengthMsgs ==
    {"try_deserialize_raw: wrong data length", "try_deserialize_raw_mut: wrong data length"}

\* C16: try_deserialize_raw and try_deserialize_raw_mut report a wrong owner
\* as InvalidAccountOwner, otherwise a length other than DISCRIMINATED_LEN
\* with the length error, and otherwise succeed whatever the first 8 bytes
\* are, unless the borrow they take last is refused.
C16_RawSkipsDiscriminator ==
    last.op \in RawOps =>
        /\ ~OwnerOk => last.err = "InvalidAccountOwner"
        /\ (OwnerOk /\ ~LenOk) =>
              last.err = "InvalidAccountData" /\ last.msg \in RawLengthMsgs
        /\ (OwnerOk /\ LenOk) =>
              IF RawBorrowGranted THEN last.err = "Ok" ELSE last.err = BorrowConflict

\* C16 witness: try_deserialize_raw_mut has just succeeded on a correctly
\* owned account of the right length whose first 8 bytes are not
\* T::DISCRIMINATOR.
C16_Witness ==
    /\ last.op = "try_deserialize_raw_mut"
    /\ OwnerOk /\ LenOk /\ ~DiscOk
    /\ last.err = "Ok"

\* the request does not fit: size above the maximum heap length, or the
\* aligned block would end beyond the region
DoesNotFit(h, size, align) ==
    LET pos == IF h.pos = 0 THEN h.start + SIZE_OF_USIZE ELSE h.pos
    IN size > MAX_HEAP_LENGTH \/ AlignUp(pos, align) + size > h.end

\* C17: the addresses returned by successful alloc calls are non-decreasing
\* in call order, every returned block lies inside [start, end], is aligned as
\* requested, and the stored offset never exceeds the region end.
C17_AllocMonotone ==
    /\ \A i, j \in DOMAIN heap.blocks :
          i < j => heap.blocks[i].addr <= heap.blocks[j].addr
    /\ \A i \in DOMAIN heap.blocks :
          /\ heap.start <= heap.blocks[i].addr
          /\ heap.blocks[i].addr + heap.blocks[i].size <= heap.end
    /\ heap.pos <= heap.end
    /\ (last.op = "alloc" /\ heap.ret # NULL) =>
          /\ heap.ret % heap.align = 0
          /\ heap.pos = heap.ret + heap.size
          /\ heap.prev <= heap.ret

\* C17 witness: three blocks have been handed out, the last one after
\* alignment padding, and the region is full.
C17_Witness ==
    /\ Len(heap.blocks) = 3
    /\ last.op = "alloc"
    /\ heap.ret > heap.prev
    /\ heap.prev # 0
    /\ heap.pos = heap.end

\* C18: an alloc request returns null exactly when it does not fit, a null
\* return leaves the stored offset as it was, and therefore every request made
\* next gets what it would have got had the failed request not been made.
C18_FailedAllocNoEffect ==
    last.op = "alloc" =>
        LET before == [heap EXCEPT !.pos = heap.prev]
        IN /\ heap.ret = NULL <=> DoesNotFit(before, heap.size, heap.align)
           /\ heap.ret = NULL =>
                 /\ heap.pos = heap.prev
                 /\ heap.blocks # << >> =>
                       heap.pos = heap.blocks[Len(heap.blocks)].addr
                                    + heap.blocks[Len(heap.blocks)].size
                 /\ \A size \in LayoutSizes : \A align \in LayoutAligns :
                       alloc(heap, size, align) = alloc(before, size, align)

\* C18 witness: a request that fits the maximum but not the rest of the
\* region has just been refused after an earlier block was handed out, and a
\* smaller request would still succeed.
C18_Witness ==
    /\ last.op = "alloc"
    /\ heap.ret = NULL
    /\ heap.size <= MAX_HEAP_LENGTH
    /\ Len(heap.blocks) = 1
    /\ alloc(heap, 1, 1).ret # NULL

\* byte ranges [a, a + n) and [b, b + m) share a byte
Overlap(a, n, b, m) == a < b + m /\ b < a + n

\* C19: dealloc leaves the stored offset and the blocks handed out as they
\* were, and in any interleaving of alloc and dealloc no two blocks handed out
\* overlap and none overlaps the offset word at the region start.
C19_DeallocNoOp ==
    /\ last.op = "dealloc" => heap.pos = heap.prev
    /\ \A i, j \in DOMAIN heap.blocks :
          i # j => ~Overlap(heap.blocks[i].addr, heap.blocks[i].size,
                            heap.blocks[j].addr, heap.blocks[j].size)
    /\ \A i \in DOMAIN heap.blocks :
          ~Overlap(heap.blocks[i].addr, heap.blocks[i].size, heap.start, SIZE_OF_USIZE)

\* C19 witness: the first of two blocks handed out has just been deallocated
\* and the stored offset is still the end of the second block.
C19_Witness ==
    /\ last.op = "dealloc"
    /\ Len(heap.blocks) = 2
    /\ heap.size = heap.blocks[1].size
    /\ heap.pos = heap.prev
    /\ heap.pos = heap.blocks[2].addr + heap.blocks[2].size

\* C20: every variant converts to one code that try_from maps back to the
\* same variant, distinct variants have distinct codes, and a u32 that is not
\* the code of a variant is refused with InvalidArgument.
C20_ErrorCodeRoundTrip ==
    /\ \A e1, e2 \in ErrorCodes : as_u32(e1) = as_u32(e2) => e1 = e2
    /\ conv.op = "from" => conv.ok /\ conv.val = conv.e
    /\ (conv.op = "try_from" /\ ~\E e \in ErrorCodes : as_u32(e) = conv.value)
          => ~conv.ok /\ conv.val = "InvalidArgument"

\* every read made so far on the InstructionContext went through next_account
OnlyChecked == \A i \in DOMAIN lazy.reads : lazy.reads[i].checked

AccessorOps == {"instruction_data", "program_id"}

\* C21: on a context read through next_account only, next_account returns
\* NotEnoughAccountKeys when remaining() is 0 and then changes neither
\* remaining nor the cursor; when remaining() > 0 it succeeds, decrements
\* remaining by exactly 1 and moves the cursor from the start of one record to
\* the start of the next: 8 bytes for a duplicate marker, the full aligned
\* record for a primary.
C21_NextAccountStep ==
    (last.op = "next_account" /\ OnlyChecked) =>
        IF remaining(lazy.pre) = 0
        THEN /\ last.err = "NotEnoughAccountKeys"
             /\ ctx = lazy.pre
        ELSE LET k == RecordAt(buffer, lazy.pre.buffer)
             IN /\ last.err = "Ok"
                /\ remaining(ctx) = remaining(lazy.pre) - 1
                /\ k # -1
                /\ ctx.buffer = RecordOffset(buffer, k + 1)
                /\ ctx.buffer - lazy.pre.buffer =
                      IF buffer.recs[k].marker # NON_DUP_MARKER
                      THEN SIZE_OF_U64
                      ELSE AlignPointer(SIZE_OF_U64 + STATIC_ACCOUNT_DATA
                                        + Len(mem[k].data))

\* C21 witness: after a primary record with padded data and a duplicate marker
\* were read, a further next_account has just been refused.
C21_Witness ==
    /\ last.op = "next_account"
    /\ OnlyChecked
    /\ last.err = "NotEnoughAccountKeys"
    /\ Len(lazy.reads) = 2
    /\ lazy.reads[1].to - lazy.reads[1].from > SIZE_OF_U64 + STATIC_ACCOUNT_DATA
    /\ lazy.reads[2].to - lazy.reads[2].from = SIZE_OF_U64

\* C22: on a context read through next_account only, instruction_data and
\* program_id return InvalidInstructionData whenever remaining() > 0; once
\* account_count calls of next_account have succeeded they return the
\* buffer's instruction bytes and its program id; neither moves the cursor or
\* changes remaining.
C22_DataAfterAccounts ==
    (last.op \in AccessorOps /\ OnlyChecked) =>
        /\ ctx = lazy.pre
        /\ remaining(ctx) > 0 =>
              last.err = "InvalidInstructionData" /\ lazy.out = NoOut
        /\ Len(lazy.reads) = NumRecs(buffer) =>
              /\ last.err = "Ok"
              /\ last.op = "instruction_data" => lazy.out.data = buffer.ix
              /\ last.op = "program_id" => lazy.out.id = buffer.program_id
        /\ last.err = "Ok" => Len(lazy.reads) = NumRecs(buffer)

\* C22 witness: program_id has just returned the buffer's program id after all
\* three records of a buffer, one of them a duplicate marker, were read.
C22_Witness ==
    /\ last.op = "program_id"
    /\ OnlyChecked
    /\ last.err = "Ok"
    /\ NumRecs(buffer) = 3
    /\ \E i \in DOMAIN lazy.reads : lazy.reads[i].ret.tag = "Duplicated"
    /\ lazy.out.id = PROGRAM_ID

\* the reads that consumed a record of the buffer
RecordReads == {i \in DOMAIN lazy.reads : RecordAt(buffer, lazy.reads[i].from) # -1}

\* C29: after any sequence of next_account and next_account_unchecked calls
\* (each unchecked call made while unread records remain), remaining() equals
\* account_count minus the number of records the cursor has consumed, every
\* read made by next_account started at a record of the buffer, and an Ok
\* result of instruction_data or program_id was read at the instruction
\* length word.
C29_RemainingTracksCursor ==
    /\ remaining(ctx) = NumRecs(buffer) - Cardinality(RecordReads)
    /\ \A i \in DOMAIN lazy.reads :
          lazy.reads[i].checked => RecordAt(buffer, lazy.reads[i].from) # -1
    /\ (last.op \in AccessorOps /\ last.err = "Ok") =>
          lazy.out.data # Garbage /\ lazy.out.id # GarbageId

\* deserialize, lines 347-357: the first account, processed ahead of the rest
ProcessFirst(buf, m) ==
    LET hdr == ReadHeader(buf, m, SIZE_OF_U64)
    IN [input |-> AlignPointer(SIZE_OF_U64 + STATIC_ACCOUNT_DATA
                               + SIZE_OF_U64 + hdr.data_len),
        acc |-> 0,
        slots |-> WriteSlot(<< >>, 0, new_unchecked(SIZE_OF_U64))]

\* the input cursor of deserialize once it has processed k records
EagerInput(buf, m, k) ==
    IF k = 0 THEN SIZE_OF_U64
    ELSE ProcessN(buf, m, ProcessFirst(buf, m), k - 1).input

\* C30: on every conformant buffer, once next_account has been called
\* account_count times on a new InstructionContext, read k returned
\* Account(view) exactly where deserialize materializes that primary view of
\* record k and Duplicated(i) exactly where deserialize copies view i, both
\* consumed the same bytes for every record, and instruction_data and
\* program_id equal what deserialize returns.
C30_LazyMatchesEager ==
    (OnlyChecked /\ Len(lazy.reads) = NumRecs(buffer)) =>
        LET d == deserialize(buffer, mem, MAX_TX_ACCOUNTS)
        IN /\ d.count = Len(lazy.reads)
           /\ \A i \in DOMAIN lazy.reads :
                LET r == lazy.reads[i]
                IN /\ r.from = EagerInput(buffer, mem, i - 1)
                   /\ r.to = EagerInput(buffer, mem, i)
                   /\ IF buffer.recs[i - 1].marker = NON_DUP_MARKER
                      THEN /\ r.ret = MaybeAccount_Account(d.slots[i - 1])
                           /\ d.slots[i - 1] = new_unchecked(RecordOffset(buffer, i - 1))
                      ELSE /\ r.ret = MaybeAccount_Duplicated(buffer.recs[i - 1].marker)
                           /\ d.slots[i - 1] = d.slots[r.ret.index]
           /\ instruction_data(buffer, ctx) = [err |-> "Ok", val |-> d.instruction_data]
           /\ program_id(buffer, ctx) = [err |-> "Ok", val |-> d.program_id]

\* C30 witness: all three records of a buffer whose third record duplicates
\* its second have been read through next_account, the first with padded data.
C30_Witness ==
    /\ OnlyChecked
    /\ NumRecs(buffer) = 3
    /\ Len(lazy.reads) = 3
    /\ lazy.reads[3].ret = MaybeAccount_Duplicated(1)
    /\ lazy.reads[2].ret.tag = "Account"
    /\ Len(mem[0].data) = 3

\* the largest lamports_per_byte accepted for an exemption threshold
MaxLamportsPerByte(threshold) ==
    IF threshold = CURRENT_EXEMPTION_THRESHOLD
    THEN CURRENT_MAX_LAMPORTS_PER_BYTE
    ELSE SIMD0194_MAX_LAMPORTS_PER_BYTE

\* (128 + data_len) * lamports_per_byte * threshold, exact, 16 bytes wide
ExactBalance(lamports_per_byte, threshold, data_len) ==
    WideMul(WideMul(U64(ACCOUNT_STORAGE_OVERHEAD + data_len), lamports_per_byte),
            U64(IF threshold = CURRENT_EXEMPTION_THRESHOLD THEN 2 ELSE 1))

\* C23: for the exemption thresholds 1.0 and 2.0, try_minimum_balance returns
\* InvalidArgument if data_len exceeds 10 MiB or lamports_per_byte exceeds the
\* limit of the threshold (879_598_564_933 for 2.0, 1_759_197_129_867 for
\* 1.0), it never panics, and every Ok result is the exact product
\* (128 + data_len) * lamports_per_byte * threshold, not wrapped modulo 2^64.
C23_MinimumBalanceExact ==
    (/\ rent.err # "none"
     /\ rent.exemption_threshold \in
            {SIMD0194_EXEMPTION_THRESHOLD, CURRENT_EXEMPTION_THRESHOLD}) =>
        /\ rent.data_len > MAX_PERMITTED_DATA_LENGTH => rent.err = "InvalidArgument"
        /\ Gt(rent.lamports_per_byte, MaxLamportsPerByte(rent.exemption_threshold))
              => rent.err = "InvalidArgument"
        /\ rent.err \in {"Ok", "InvalidArgument"}
        /\ rent.err = "Ok" =>
              rent.val \o Zeros(SIZE_OF_U64) =
                  ExactBalance(rent.lamports_per_byte, rent.exemption_threshold,
                               rent.data_len)

\* process_accounts one record at a time, n times from the first record on
OneAtATime(buf, m, n) ==
    ProcessN(buf, m, [input |-> SIZE_OF_U64, acc |-> -1, slots |-> << >>], n)

\* C24: whenever deserialize has between 1 and MAX_TX_ACCOUNTS records to
\* materialize, min(account_count, MAX_ACCOUNTS), its first-record step, its
\* batches of five and its tail switch write exactly the views that processing
\* the records one at a time writes: that many views, view k describing record
\* k of the buffer (the record a duplicate marker names), and the tail switch
\* is entered with a count between 1 and 5.
C24_BatchedMatchesSequential ==
    (pc = "run" /\ Min(NumRecs(buffer), max_accounts) \in 1..MAX_TX_ACCOUNTS) =>
        LET n == Min(NumRecs(buffer), max_accounts)
        IN /\ ~entry.ub
           /\ count = n
           /\ DOMAIN accounts = 0..(n - 1)
           /\ accounts = OneAtATime(buffer, mem, n).slots
           /\ \A k \in 0..(n - 1) :
                 accounts[k] = new_unchecked(RecordOffset(buffer, Phys(buffer, k)))

\* C24 witness: 11 of 12 records were materialized (two batches of five after
\* the first record, a tail of one, one record skipped), the last view a copy
\* of view 0.
C24_Witness ==
    /\ pc = "run"
    /\ NumRecs(buffer) = 12
    /\ max_accounts = 11
    /\ count = 11
    /\ buffer.recs[8].marker = 0
    /\ accounts[8] = accounts[0]
    /\ accounts[10] # accounts[0]

\* C25: try_deserialize and try_deserialize_mut evaluate the data-length check
\* before they attempt the borrow: a correctly owned account of the wrong
\* length is reported with the length error whatever borrows are outstanding
\* on its aliases, and BorrowConflict is reported only for accounts that pass
\* the owner and the length check.
C25_LengthBeforeBorrow ==
    last.op \in CastOps =>
        /\ (OwnerOk /\ ~LenOk) =>
              last.err = "InvalidAccountData" /\ last.msg \in LengthMsgs
        /\ last.err = BorrowConflict => OwnerOk /\ LenOk

\* the two typed casts and the two raw casts
AllCastOps == CastOps \cup RawOps

\* C26: in every step in which try_deserialize, try_deserialize_mut,
\* try_deserialize_raw or try_deserialize_raw_mut returns an error (owner,
\* length, discriminator or borrow conflict), the Borrow State of every
\* account and the set of live guards are after the call what they were
\* before it, so a borrow that was grantable before is grantable after.
C26_FailedCastKeepsBorrowState ==
    [][ (last'.op \in AllCastOps /\ last'.err # "Ok") =>
          /\ borrow' = borrow
          /\ guards' = guards
          /\ mem' = mem
          /\ \A a \in Primaries :
                /\ try_borrow(borrow'[a]).ok = try_borrow(borrow[a]).ok
                /\ try_borrow_mut(borrow'[a]).ok = try_borrow_mut(borrow[a]).ok
      ]_vars

\* C26 witness: a typed cast has just failed on the discriminator, after its
\* borrow was granted, on an account that holds no borrow.
C26_Witness ==
    /\ last.op \in CastOps
    /\ last.msg \in DiscriminatorMsgs
    /\ last.pre = Unborrowed
    /\ borrow[LastPhys] = Unborrowed
    /\ GuardsOn(LastPhys, AllKinds) = 0

UncheckedOps == {"try_deserialize_raw_unchecked", "try_deserialize_raw_unchecked_mut"}

\* what the other of the two unchecked casts returns for the account, type
\* and Borrow State the last one was applied to
OtherUnchecked ==
    IF last.op = "try_deserialize_raw_unchecked"
    THEN try_deserialize_raw_unchecked_mut(last.ty, LastAcct, last.pre)
    ELSE try_deserialize_raw_unchecked(last.ty, LastAcct, last.pre)

\* C27: for every account, whatever its owner, length and first 8 bytes,
\* try_deserialize_raw_unchecked and try_deserialize_raw_unchecked_mut return
\* Ok for the same accounts and the same error otherwise, and neither changes
\* the Borrow State or depends on it.
C27_UncheckedPairAgrees ==
    last.op \in UncheckedOps =>
        /\ OtherUnchecked.err = last.err
        /\ borrow[LastPhys] = last.pre

RawImplOps ==
    {"try_deserialize_raw", "TokenAccount::try_deserialize_raw",
     "Mint::try_deserialize_raw"}

\* the owner and the data length the implementation for last.ty asks for
RawOwner == IF last.ty \in TokenTypes THEN TOKEN_ID ELSE OWNER(last.ty)
RawLen == IF last.ty \in TokenTypes THEN LEN(last.ty) ELSE DISCRIMINATED_LEN(last.ty)

\* C28: every implementation of try_deserialize_raw (blanket, TokenAccount,
\* Mint) reports InvalidAccountOwner, never the length error, for an account
\* that has both the wrong owner and the wrong data length.
C28_OwnerBeforeLength ==
    (/\ last.op \in RawImplOps
     /\ LastAcct.owner # RawOwner
     /\ Len(LastAcct.data) # RawLen)
        => last.err = "InvalidAccountOwner"

====
